---------------------------- MODULE Spec2Model ----------------------------
(* Model of the airstack TypeScript structural validator (validateConfig)  *)
(* and of the entity model it validates.  Strings on which the code works  *)
(* character by character (trim, includes, startsWith) are sequences of    *)
(* one-character strings; service names, which the code only uses as       *)
(* mapping keys, and provider names are plain strings.                     *)
EXTENDS Integers, Sequences, FiniteSets, TLC

(***************************************************************************)
(* Bounds of the model                                                     *)
(***************************************************************************)
MaxStrLen == 3     \* longest project name / image string enumerated
MaxServers == 3    \* longest infra.servers list
MaxServices == 3   \* largest services mapping
MaxDeps == 2       \* longest depends_on list of one service
MaxEdges == 3      \* most depends_on entries in one services mapping
MaxPorts == 2      \* longest ports list of one service
MaxVolumes == 2    \* longest volumes list of one service
MaxSites == 2      \* longest edge.sites list
MaxFaults == 2     \* most schema violations planted in one document
MaxOut == 3        \* longest stdout of the airstack binary
MaxSignals == 2    \* most signals delivered to the CLI wrapper

(***************************************************************************)
(* Generic helpers                                                         *)
(***************************************************************************)
BoundedSeq(S, n) == UNION {[1..k -> S] : k \in 0..n}

Range(s) == {s[i] : i \in 1..Len(s)}

Min(a, b) == IF a < b THEN a ELSE b

(***************************************************************************)
(* JavaScript string primitives used by the validator                      *)
(***************************************************************************)
\* characters String.prototype.trim strips (the model's alphabet has two)
WhiteSpace == {" ", "\t"}

RECURSIVE TrimStart(_)
TrimStart(s) ==
    IF s # <<>> /\ Head(s) \in WhiteSpace THEN TrimStart(Tail(s)) ELSE s

RECURSIVE TrimEnd(_)
TrimEnd(s) ==
    IF s # <<>> /\ s[Len(s)] \in WhiteSpace
    THEN TrimEnd(SubSeq(s, 1, Len(s) - 1))
    ELSE s

\* s.trim()
Trim(s) == TrimEnd(TrimStart(s))

\* s.includes(c) for a one-character c
Includes(s, c) == \E i \in 1..Len(s) : s[i] = c

\* s.startsWith(c) for a one-character c
StartsWith(s, c) == s # <<>> /\ s[1] = c

\* a JavaScript string is truthy iff it is not empty
Truthy(s) == s # <<>>

(***************************************************************************)
(* Entity model (types.ts)                                                 *)
(***************************************************************************)
\* names a services mapping may use as keys, in declaration order
ServiceNamePool == <<"a", "b", "c", "d", "e", "f">>

ServiceNames == {ServiceNamePool[i] : i \in 1..Min(MaxServices, Len(ServiceNamePool))}

\* a name that is never a key of the mapping
UndefinedName == "db"

\* a property every plain JavaScript object inherits from Object.prototype
ProtoNames == {"toString"}

ServerConfig(n, p, k) == [name |-> n, provider |-> p, ssh_key |-> k]

ServiceConfig(img, ps, hasVol, vol, hasDep, dep) ==
    [image |-> img, ports |-> ps,
     has_volumes |-> hasVol, volumes |-> vol,
     has_depends_on |-> hasDep, depends_on |-> dep]

EdgeSiteConfig(svc, port) == [upstream_service |-> svc, upstream_port |-> port]

\* AirstackConfig: the optional sections carry a presence flag; the services
\* mapping is its key sequence (Object.entries order) and a function on them
AirstackConfig(nm, hasInfra, servers, hasServices, order, svc, hasEdge, sites) ==
    [name |-> nm,
     has_infra |-> hasInfra, servers |-> servers,
     has_services |-> hasServices, order |-> order, services |-> svc,
     has_edge |-> hasEdge, sites |-> sites]

\* config.services[name] is truthy: an own key, or an inherited property
Lookup(cfg, name) == name \in DOMAIN cfg.services \/ name \in ProtoNames

\* service.depends_on of config.services[name]; an inherited property value
\* has no depends_on
DependsOn(cfg, name) ==
    IF name \in DOMAIN cfg.services /\ cfg.services[name].has_depends_on
    THEN cfg.services[name].depends_on
    ELSE <<>>

(***************************************************************************)
(* Input models: bounded families of AirstackConfig values                 *)
(***************************************************************************)
Strs == BoundedSeq({"a", " ", "\t"}, MaxStrLen)

DefaultName == <<"p">>
DefaultImage == <<"n">>

NoServices == [k \in {} |-> 0]

ServerNameValues == {<<>>, <<" ">>, <<"e">>, <<"w">>, <<" ", "e">>}

ServerPool ==
    {ServerConfig(n, "hetzner", <<"~", "/", "k">>) : n \in ServerNameValues}
    \cup {ServerConfig(<<"e">>, "fly", <<"k">>),
          ServerConfig(<<"e">>, "other", <<>>),
          ServerConfig(<<"e">>, "other", <<"a", "/", "b">>),
          ServerConfig(<<"w">>, "other", <<"k">>)}

PortValues == {-1, 0, 1, 80, 443, 1023, 1024, 3000, 65535, 65536}

VolumeValues == {<<>>, <<"d">>, <<"h", ":", "c">>}

PlainService(deps) ==
    ServiceConfig(DefaultImage, <<>>, FALSE, <<>>, deps # <<>>, deps)

Prefix(n) == SubSeq(ServiceNamePool, 1, Min(n, Len(ServiceNamePool)))

RECURSIVE Sum(_)
Sum(lens) == IF lens = <<>> THEN 0 ELSE Head(lens) + Sum(Tail(lens))

\* a dependency graph is drawn as (n, lens) and flat: the first n services
\* are defined, lens[i] is the length of the i-th depends_on list (at most
\* MaxDeps each, at most MaxEdges in all) and flat is their concatenation
GraphShapes ==
    {x \in (0..Len(Prefix(MaxServices)))
            \X [1..Len(Prefix(MaxServices)) -> 0..MaxDeps] :
        /\ \A i \in 1..Len(x[2]) : i > x[1] => x[2][i] = 0
        /\ Sum(x[2]) <= MaxEdges}

\* the i-th depends_on list, cut out of the concatenation of all of them
Slice(flat, lens, i) ==
    SubSeq(flat, Sum(SubSeq(lens, 1, i - 1)) + 1, Sum(SubSeq(lens, 1, i)))

\* project only: neither infra nor services
ProjectFamily ==
    {AirstackConfig(nm, FALSE, <<>>, FALSE, <<>>, NoServices, FALSE, <<>>) :
        nm \in Strs}

\* server lists of length k
ServerFamily(k) ==
    {AirstackConfig(DefaultName, TRUE, ss, FALSE, <<>>, NoServices, FALSE, <<>>) :
        ss \in [1..k -> ServerPool]}

\* dependency graphs over the first n names, undefined names included
GraphFamily(x) ==
    {AirstackConfig(DefaultName, FALSE, <<>>, TRUE, Prefix(x[1]),
                    [k \in Range(Prefix(x[1])) |->
                        PlainService(Slice(flat, x[2],
                            CHOOSE i \in 1..x[1] : ServiceNamePool[i] = k))],
                    FALSE, <<>>) :
        flat \in [1..Sum(x[2]) -> ServiceNames \cup {UndefinedName}]}

\* one service depending on inherited property names and undefined names
ProtoFamily ==
    {AirstackConfig(DefaultName, FALSE, <<>>, TRUE, <<"a">>,
                    [k \in {"a"} |-> ServiceConfig(img, <<3000>>, FALSE, <<>>, TRUE, deps)],
                    FALSE, <<>>) :
        img \in {<<>>, DefaultImage},
        deps \in BoundedSeq(ProtoNames \cup {UndefinedName, "a"}, MaxDeps)}

\* images, ports and volumes of a single service
ImageFamily ==
    {AirstackConfig(DefaultName, FALSE, <<>>, TRUE, <<"a">>,
                    [k \in {"a"} |-> ServiceConfig(img, <<3000>>, FALSE, <<>>, FALSE, <<>>)],
                    FALSE, <<>>) :
        img \in Strs}

PortFamily ==
    {AirstackConfig(DefaultName, FALSE, <<>>, TRUE, <<"a">>,
                    [k \in {"a"} |-> ServiceConfig(DefaultImage, ps, FALSE, <<>>, FALSE, <<>>)],
                    FALSE, <<>>) :
        ps \in BoundedSeq(PortValues, MaxPorts)}

VolumeFamily ==
    {AirstackConfig(DefaultName, FALSE, <<>>, TRUE, <<"a">>,
                    [k \in {"a"} |-> ServiceConfig(DefaultImage, <<8080>>, o[1], o[2], FALSE, <<>>)],
                    FALSE, <<>>) :
        o \in {<<FALSE, <<>>>>}
              \cup {<<TRUE, vs>> : vs \in BoundedSeq(VolumeValues, MaxVolumes)}}

\* edge sites over a fixed pair of services
EdgeFamily ==
    {AirstackConfig(DefaultName, FALSE, <<>>, TRUE, <<"a", "b">>,
                    [k \in {"a", "b"} |->
                        ServiceConfig(DefaultImage, <<8080>>, FALSE, <<>>, k = "a",
                                      IF k = "a" THEN <<"b">> ELSE <<>>)],
                    TRUE, st) :
        st \in BoundedSeq({EdgeSiteConfig(s, p) : s \in {"a", "b", UndefinedName},
                                                  p \in {0, 443, 8080, 65536}}, MaxSites)}

\* several sections at once
MixedFamily ==
    {AirstackConfig(nm, TRUE, ss, TRUE, <<"a", "b">>,
                    [k \in {"a", "b"} |->
                        IF k = "a" THEN ServiceConfig(img, ps, TRUE, vs, TRUE, deps)
                                   ELSE ServiceConfig(DefaultImage, <<80, 443>>, FALSE, <<>>, TRUE, <<>>)],
                    FALSE, <<>>) :
        nm \in {<<>>, <<"p", " ", "q">>},
        ss \in {<<>>, <<ServerConfig(<<"e">>, "hetzner", <<"k">>),
                       ServerConfig(<<"e">>, "fly", <<"~", "/", "k">>)>>},
        img \in {<<" ">>, DefaultImage},
        ps \in {<<>>, <<0, 80>>, <<3000>>},
        vs \in {<<>>, <<<<"d">>>>},
        deps \in {<<"b">>, <<"b", "a">>, <<"a", "b">>}}

\* findings of every block at once: two servers and two services with
\* findings of their own, with and without a cycle between the services
OrderFamily ==
    {AirstackConfig(nm, TRUE,
                    <<ServerConfig(<<>>, "other", <<"k">>),
                      ServerConfig(<<"e">>, "hetzner", <<"k">>),
                      ServerConfig(<<"e">>, "fly", <<"~", "/", "k">>)>>,
                    TRUE, order,
                    [k \in {"a", "b"} |->
                        IF k = "a" THEN ServiceConfig(<<" ">>, pa, TRUE, <<<<"d">>>>, TRUE, da)
                                   ELSE ServiceConfig(<<>>, <<0, 65536>>, TRUE, <<<<"v">>>>, TRUE, <<"a">>)],
                    FALSE, <<>>) :
        nm \in {<<>>, <<" ">>},
        order \in {<<"a", "b">>, <<"b", "a">>},
        pa \in {<<>>, <<-1, 80>>},
        da \in {<<>>, <<"b">>}}

\* the models validateConfig is called on
Configs(c) ==
    \/ c \in ProjectFamily
    \/ \E k \in 0..MaxServers : c \in ServerFamily(k)
    \/ \E x \in GraphShapes : c \in GraphFamily(x)
    \/ c \in ProtoFamily
    \/ c \in ImageFamily
    \/ c \in PortFamily
    \/ c \in VolumeFamily
    \/ c \in EdgeFamily
    \/ c \in MixedFamily
    \/ c \in OrderFamily

(***************************************************************************)
(* Findings (the entries of errors and warnings)                           *)
(***************************************************************************)
ErrProjectNameEmpty == [kind |-> "ProjectNameEmpty"]
ErrDuplicateServer(n) == [kind |-> "DuplicateServerName", server |-> n]
ErrServerNameEmpty == [kind |-> "ServerNameEmpty"]
ErrDuplicateService(s) == [kind |-> "DuplicateServiceName", service |-> s]
ErrNoImage(s) == [kind |-> "ServiceNoImage", service |-> s]
ErrInvalidPort(s, p) == [kind |-> "InvalidPort", service |-> s, port |-> p]
ErrUndefinedDep(s, d) == [kind |-> "UndefinedDependency", service |-> s, dep |-> d]
ErrCircular(s) == [kind |-> "CircularDependency", service |-> s]

WarnProjectNameSpaces == [kind |-> "ProjectNameSpaces"]
WarnUnknownProvider(p, n) == [kind |-> "UnknownProvider", provider |-> p, server |-> n]
WarnSshKey(n) == [kind |-> "SshKey", server |-> n]
WarnNoPorts(s) == [kind |-> "NoPorts", service |-> s]
WarnPrivilegedPort(s, p) == [kind |-> "PrivilegedPort", service |-> s, port |-> p]
WarnVolumeFormat(v, s) == [kind |-> "VolumeFormat", volume |-> v, service |-> s]

\* the entry when the condition holds, nothing otherwise
When(cond, entry) == IF cond THEN <<entry>> ELSE <<>>

KnownProviders == {"hetzner"}

(***************************************************************************)
(* State of one validateConfig call                                        *)
(***************************************************************************)
VARIABLES
    config,        \* the model under validation
    pc,            \* position in validateConfig
    errors,        \* errors accumulated so far
    warnings,      \* warnings accumulated so far
    serverNames,   \* names of the servers seen so far
    si,            \* index of the next server
    serviceNames,  \* names of the services seen so far
    ki,            \* index of the next service
    visited,       \* services fully explored by checkCircularDeps
    visiting,      \* services marked in progress by checkCircularDeps
    stack,         \* active checkCircularDeps calls: [name, next dependency]
    call,          \* argument of a checkCircularDeps call about to start
    ret,           \* value a checkCircularDeps call has just returned
    ri,            \* index of the next root of the top-level loop
    result,        \* the ValidationResult returned
    first,         \* what the first call on a model came to, once it is over
    cls,           \* what the last call of an AirstackConfig method came to
    doc,           \* the parsed document AirstackConfig.load works on
    ld,            \* what AirstackConfig.load came to
    client,        \* the options the AirstackClient was constructed with
    sdk,           \* what the last call of an AirstackClient method came to
    host,          \* the environment, the file system and the binary of the machine
    bin,           \* what resolveAirstackBinaryPath came to
    cli,           \* the CLI wrapper process: where main is, handlers, exit
    childProc      \* the process the CLI wrapper spawned (child in main)

vars == <<config, pc, errors, warnings, serverNames, si, serviceNames, ki,
          visited, visiting, stack, call, ret, ri, result, first,
          cls, doc, ld, client, sdk, host, bin, cli, childProc>>

\* the state of validateConfig and of its caller
valVars == <<config, pc, errors, warnings, serverNames, si, serviceNames, ki,
             visited, visiting, stack, call, ret, ri, result, first>>

\* the state of the other entry points, which validateConfig leaves alone
apiVars == <<cls, doc, ld, client, sdk, host, bin, cli, childProc>>

\* the state of binary resolution and of the CLI wrapper
cliVars == <<host, bin, cli, childProc>>

cycleVars == <<visited, visiting, stack, call, ret, ri>>

NoResult == [valid |-> FALSE, errors |-> <<>>, warnings |-> <<>>]

\* no method of the AirstackConfig instance has been called
ClsIdle == [op |-> "none", service |-> "", server |-> <<>>, threw |-> FALSE,
            error |-> <<>>, value |-> <<>>]

\* no document has been read
NoDoc == [kind |-> "none", faults |-> <<>>, root |-> <<>>]

\* AirstackConfig.load has not been called
LdIdle == [op |-> "none", threw |-> FALSE, head |-> "", lines |-> <<>>,
           model |-> <<>>]

\* what execa resolves with when nothing was run
NoChild == [stdout |-> <<>>, stderr |-> <<>>, exitCode |-> <<>>]

\* an AirstackClient constructed without configPath; binary is what the
\* executable at binaryPath does when it is run
NoClient == [configPath |-> <<>>, binary |-> NoChild]

\* no method of the AirstackClient has been called
SdkIdle == [op |-> "none", argv |-> <<>>, child |-> NoChild, threw |-> FALSE,
            error |-> "", value |-> <<>>]

\* a machine nothing is known about
NoHost == [platform |-> "linux", AIRSTACK_BINARY |-> <<>>, exists |-> {},
           inPath |-> <<>>, version |-> FALSE, starts |-> FALSE]

\* resolveAirstackBinaryPath has not been called
BinIdle == [op |-> "none", threw |-> FALSE, value |-> <<>>, error |-> ""]

\* the CLI wrapper has not been started
CliNone == [pc |-> "none", binaryPath |-> <<>>, handlers |-> {}, signals |-> <<>>,
            pending |-> <<>>, forwarded |-> <<>>, exitCode |-> <<>>, cause |-> "none"]

\* no process has been spawned
NoProcess == [state |-> "none", code |-> <<>>, signal |-> <<>>, received |-> <<>>,
              event |-> <<>>]

\* neither binary resolution nor the CLI wrapper has run
CliIdle ==
    /\ host = NoHost
    /\ bin = BinIdle
    /\ cli = CliNone
    /\ childProc = NoProcess

\* no method of AirstackConfig or AirstackClient has been called
ApiIdle ==
    /\ cls = ClsIdle
    /\ doc = NoDoc
    /\ ld = LdIdle
    /\ client = NoClient
    /\ sdk = SdkIdle
    /\ CliIdle

Init ==
    /\ Configs(config)
    /\ pc = "project"
    /\ errors = <<>>
    /\ warnings = <<>>
    /\ serverNames = {}
    /\ si = 1
    /\ serviceNames = {}
    /\ ki = 1
    /\ visited = {}
    /\ visiting = {}
    /\ stack = <<>>
    /\ call = <<>>
    /\ ret = <<>>
    /\ ri = 1
    /\ result = NoResult
    /\ first = <<>>
    /\ ApiIdle

\* where control goes once the servers block is over
AfterServers ==
    IF ~config.has_services THEN "return"
    ELSE IF config.order # <<>> THEN "services" ELSE "cycle"

\* where control goes once the project checks are over
AfterProject ==
    IF config.has_infra /\ config.servers # <<>> THEN "servers" ELSE AfterServers

(***************************************************************************)
(* validateConfig, block by block                                          *)
(***************************************************************************)
\* errors.push(...) and warnings.push(...): the entries go to the end of the
\* list, in the order they are given
Push_Front(list, entries) == entries \o list

Push(list, entries) == list \o entries

ProjectErrors_SpaceIsError(nm) ==
    When(Trim(nm) = <<>> \/ Includes(nm, " "), ErrProjectNameEmpty)

ProjectErrors(nm) == When(Trim(nm) = <<>>, ErrProjectNameEmpty)

ProjectWarnings(nm) == When(Includes(nm, " "), WarnProjectNameSpaces)

ValidateProject ==
    /\ pc = "project"
    /\ errors' = Push(errors, ProjectErrors(config.name))
    /\ warnings' = Push(warnings, ProjectWarnings(config.name))
    /\ pc' = AfterProject
    /\ UNCHANGED <<config, serverNames, si, serviceNames, ki, result>>
    /\ UNCHANGED cycleVars
    /\ UNCHANGED <<first, apiVars>>

ServerErrors_AddBeforeCheck(server, seen) ==
    When(server.name \in seen \cup {server.name}, ErrDuplicateServer(server.name))
    \o When(Trim(server.name) = <<>>, ErrServerNameEmpty)

ServerErrors(server, seen) ==
    When(server.name \in seen, ErrDuplicateServer(server.name))
    \o When(Trim(server.name) = <<>>, ErrServerNameEmpty)

ServerWarnings(server) ==
    When(server.provider \notin KnownProviders,
         WarnUnknownProvider(server.provider, server.name))
    \o When(/\ Truthy(server.ssh_key)
            /\ ~Includes(server.ssh_key, "/")
            /\ ~StartsWith(server.ssh_key, "~"),
            WarnSshKey(server.name))

\* one iteration of the loop over config.infra.servers
ValidateServer ==
    /\ pc = "servers"
    /\ LET server == config.servers[si] IN
        /\ errors' = Push(errors, ServerErrors(server, serverNames))
        /\ warnings' = Push(warnings, ServerWarnings(server))
        /\ serverNames' = serverNames \cup {server.name}
    /\ si' = si + 1
    /\ pc' = IF si = Len(config.servers) THEN AfterServers ELSE "servers"
    /\ UNCHANGED <<config, serviceNames, ki, result>>
    /\ UNCHANGED cycleVars
    /\ UNCHANGED <<first, apiVars>>

InvalidPort_ZeroAllowed(port) == port < 0 \/ port > 65535

InvalidPort(port) == port < 1 \/ port > 65535

PrivilegedPort(port) == port < 1024

\* the loop over service.ports: one error per invalid port, in order
PortErrors(serviceName, ports) ==
    LET sel == SelectSeq(ports, InvalidPort)
    IN  [i \in 1..Len(sel) |-> ErrInvalidPort(serviceName, sel[i])]

\* the loop over service.ports: one warning per privileged port, in order
PortWarnings(serviceName, ports) ==
    LET sel == SelectSeq(ports, PrivilegedPort)
    IN  [i \in 1..Len(sel) |-> WarnPrivilegedPort(serviceName, sel[i])]

\* the loop over service.depends_on: one error per name that is not defined
DependencyErrors(cfg, serviceName, deps) ==
    LET Missing(d) == ~Lookup(cfg, d)
        sel == SelectSeq(deps, Missing)
    IN  [i \in 1..Len(sel) |-> ErrUndefinedDep(serviceName, sel[i])]

\* the loop over service.volumes: one warning per volume without a colon
VolumeWarnings(serviceName, volumes) ==
    LET NoColon(v) == ~Includes(v, ":")
        sel == SelectSeq(volumes, NoColon)
    IN  [i \in 1..Len(sel) |-> WarnVolumeFormat(sel[i], serviceName)]

ServiceErrors(cfg, serviceName, seen) ==
    LET service == cfg.services[serviceName]
    IN  When(serviceName \in seen, ErrDuplicateService(serviceName))
        \o When(Trim(service.image) = <<>>, ErrNoImage(serviceName))
        \o PortErrors(serviceName, service.ports)
        \o (IF service.has_depends_on
            THEN DependencyErrors(cfg, serviceName, service.depends_on)
            ELSE <<>>)

ServiceWarnings(cfg, serviceName) ==
    LET service == cfg.services[serviceName]
    IN  When(Len(service.ports) = 0, WarnNoPorts(serviceName))
        \o PortWarnings(serviceName, service.ports)
        \o (IF service.has_volumes
            THEN VolumeWarnings(serviceName, service.volumes)
            ELSE <<>>)

\* one iteration of the loop over Object.entries(config.services)
ValidateService ==
    /\ pc = "services"
    /\ LET serviceName == config.order[ki] IN
        /\ errors' = Push(errors, ServiceErrors(config, serviceName, serviceNames))
        /\ warnings' = Push(warnings, ServiceWarnings(config, serviceName))
        /\ serviceNames' = serviceNames \cup {serviceName}
    /\ ki' = ki + 1
    /\ pc' = IF ki = Len(config.order) THEN "cycle" ELSE "services"
    /\ UNCHANGED <<config, serverNames, si, result>>
    /\ UNCHANGED cycleVars
    /\ UNCHANGED <<first, apiVars>>

(***************************************************************************)
(* Cycle detection: checkCircularDeps and the loop that starts it          *)
(***************************************************************************)
Frame(n, i) == [name |-> n, next |-> i]

Top == stack[Len(stack)]

Pop == SubSeq(stack, 1, Len(stack) - 1)

\* the top-level loop over Object.keys(config.services): start the next
\* root (the value the previous root returned is dropped) or leave the loop
RootLoop ==
    /\ pc = "cycle"
    /\ stack = <<>>
    /\ call = <<>>
    /\ IF ri <= Len(config.order)
       THEN /\ call' = <<config.order[ri]>>
            /\ ri' = ri + 1
            /\ pc' = pc
       ELSE /\ pc' = "return"
            /\ UNCHANGED <<call, ri>>
    /\ ret' = <<>>
    /\ UNCHANGED <<config, errors, warnings, serverNames, si, serviceNames, ki,
                   visited, visiting, stack, result>>
    /\ UNCHANGED <<first, apiVars>>

\* the two early returns of checkCircularDeps: TRUE on a service marked in
\* progress, FALSE on a service already done, nothing otherwise
EarlyReturn_BackEdgeIgnored(serviceName) ==
    IF serviceName \in visiting \cup visited THEN <<FALSE>> ELSE <<>>

EarlyReturn(serviceName) ==
    IF serviceName \in visiting THEN <<TRUE>>
    ELSE IF serviceName \in visited THEN <<FALSE>>
    ELSE <<>>

\* entry of checkCircularDeps(serviceName): the early returns, the mark, and
\* the read of service.depends_on, which throws a TypeError when
\* config.services[serviceName] is undefined
CheckCircularDepsEnter ==
    /\ pc = "cycle"
    /\ call # <<>>
    /\ LET serviceName == call[1] IN
        IF EarlyReturn(serviceName) # <<>>
        THEN /\ ret' = EarlyReturn(serviceName)
             /\ UNCHANGED <<visiting, stack, pc>>
        ELSE /\ visiting' = visiting \cup {serviceName}
             /\ ret' = <<>>
             /\ IF Lookup(config, serviceName)
                THEN /\ stack' = Append(stack, Frame(serviceName, 1))
                     /\ pc' = pc
                ELSE /\ pc' = "threw"
                     /\ UNCHANGED stack
    /\ call' = <<>>
    /\ UNCHANGED <<config, errors, warnings, serverNames, si, serviceNames, ki,
                   visited, ri, result>>
    /\ UNCHANGED <<first, apiVars>>

\* visiting once serviceName is done: visiting.delete(serviceName)
VisitingAfterDone_NoDelete(serviceName) == visiting

VisitingAfterDone(serviceName) == visiting \ {serviceName}

\* for (const dep of service.depends_on): the position after the i-th
NextDependency_Same(i) == i

NextDependency(i) == i + 1

\* the innermost active call goes on with its loop over depends_on: it calls
\* itself on the next dependency, or, the loop over, marks the service done
CheckCircularDepsLoop ==
    /\ pc = "cycle"
    /\ stack # <<>>
    /\ call = <<>>
    /\ ret = <<>>
    /\ LET deps == DependsOn(config, Top.name) IN
        IF Top.next <= Len(deps)
        THEN /\ call' = <<deps[Top.next]>>
             /\ stack' = [stack EXCEPT ![Len(stack)].next = NextDependency(@)]
             /\ UNCHANGED <<visiting, visited, ret>>
        ELSE /\ visiting' = VisitingAfterDone(Top.name)
             /\ visited' = visited \cup {Top.name}
             /\ stack' = Pop
             /\ ret' = <<FALSE>>
             /\ UNCHANGED call
    /\ UNCHANGED <<config, pc, errors, warnings, serverNames, si, serviceNames,
                   ki, ri, result>>
    /\ UNCHANGED <<first, apiVars>>

\* the service the circular-dependency error names: the serviceName of the
\* call whose recursive call returned true
ReportedService_Root == stack[1].name

ReportedService == Top.name

\* the innermost active call receives the value of its recursive call: on
\* true it pushes its error and returns true at once, on false it goes on
CheckCircularDepsReturn ==
    /\ pc = "cycle"
    /\ stack # <<>>
    /\ ret # <<>>
    /\ IF ret[1]
       THEN /\ errors' = Push(errors, <<ErrCircular(ReportedService)>>)
            /\ stack' = Pop
            /\ ret' = <<TRUE>>
       ELSE /\ ret' = <<>>
            /\ UNCHANGED <<errors, stack>>
    /\ UNCHANGED <<config, pc, warnings, serverNames, si, serviceNames, ki,
                   visited, visiting, call, ri, result>>
    /\ UNCHANGED <<first, apiVars>>

ValidationResult_WarningsCount(errs, warns) ==
    [valid |-> Len(errs) = 0 /\ Len(warns) = 0, errors |-> errs, warnings |-> warns]

ValidationResult(errs, warns) ==
    [valid |-> Len(errs) = 0, errors |-> errs, warnings |-> warns]

ReturnResult ==
    /\ pc = "return"
    /\ result' = ValidationResult(errors, warnings)
    /\ pc' = "done"
    /\ UNCHANGED <<config, errors, warnings, serverNames, si, serviceNames, ki>>
    /\ UNCHANGED cycleVars
    /\ UNCHANGED <<first, apiVars>>

Next ==
    \/ ValidateProject
    \/ ValidateServer
    \/ ValidateService
    \/ RootLoop
    \/ CheckCircularDepsEnter
    \/ CheckCircularDepsLoop
    \/ CheckCircularDepsReturn
    \/ ReturnResult

Spec == Init /\ [][Next]_vars

(***************************************************************************)
(* Repeated calls: validateConfig is called again once a call is over, on  *)
(* the same model or, in between, on another one                           *)
(***************************************************************************)
\* a model that leaves every set of the call non-empty: a repeated server,
\* a service that depends on itself
OtherModel ==
    AirstackConfig(<<"q">>, TRUE,
                   <<ServerConfig(<<"e">>, "other", <<>>),
                     ServerConfig(<<"e">>, "other", <<>>)>>,
                   TRUE, <<"a">>,
                   [k \in {"a"} |->
                       ServiceConfig(<<>>, <<0>>, FALSE, <<>>, TRUE, <<"a">>)],
                   FALSE, <<>>)

\* what a call that is over came to: the exception or the ValidationResult
Outcome == [config |-> config, threw |-> pc = "threw", result |-> result]

\* the visiting set a call starts with: a Set created inside the call
VisitingAtEntry_Kept == visiting

VisitingAtEntry == {}

\* entry of validateConfig: the accumulators and the sets are created by
\* the call
CallAgain ==
    /\ pc \in {"done", "threw"}
    /\ \/ /\ first = <<>>
          /\ first' = <<Outcome>>
          /\ config' \in {config, OtherModel}
       \/ /\ first # <<>>
          /\ config # first[1].config
          /\ config' = first[1].config
          /\ first' = first
    /\ pc' = "project"
    /\ errors' = <<>>
    /\ warnings' = <<>>
    /\ serverNames' = {}
    /\ si' = 1
    /\ serviceNames' = {}
    /\ ki' = 1
    /\ visited' = {}
    /\ visiting' = VisitingAtEntry
    /\ stack' = <<>>
    /\ call' = <<>>
    /\ ret' = <<>>
    /\ ri' = 1
    /\ result' = NoResult
    /\ UNCHANGED apiVars

NextRepeat ==
    \/ Next
    \/ CallAgain

SpecRepeat == Init /\ [][NextRepeat]_vars

(***************************************************************************)
(* The AirstackConfig class: validate, getService, getServer               *)
(***************************************************************************)
\* the Errors the methods throw
ClsDuplicateServer(n) == [kind |-> "DuplicateServerName", server |-> n]
ClsDuplicateService(s) == [kind |-> "DuplicateServiceName", service |-> s]
ClsUndefinedDep(s, d) == [kind |-> "UndefinedDependency", service |-> s, dep |-> d]
ClsServiceNotFound(s) == [kind |-> "ServiceNotFound", service |-> s]
ClsServerNotFound(n) == [kind |-> "ServerNotFound", server |-> n]

\* get servers(): this.config.infra?.servers || []
Servers(cfg) == IF cfg.has_infra THEN cfg.servers ELSE <<>>

\* Object.entries(this.services), with this.config.services || {}
ServiceEntries(cfg) == IF cfg.has_services THEN cfg.order ELSE <<>>

\* this.services[name]: the service stored under the key, a property
\* inherited from Object.prototype, or undefined
ServicesGet_OwnOnly(cfg, name) ==
    IF cfg.has_services /\ name \in DOMAIN cfg.services
    THEN <<cfg.services[name]>>
    ELSE <<>>

ServicesGet(cfg, name) ==
    IF cfg.has_services /\ name \in DOMAIN cfg.services
    THEN <<cfg.services[name]>>
    ELSE IF name \in ProtoNames THEN <<[inherited |-> name]>>
    ELSE <<>>

\* the loop of validate over the servers from the i-th on: the Error it
\* throws, nothing when it runs to its end
RECURSIVE ValidateServers(_, _, _)
ValidateServers(servers, i, seen) ==
    IF i > Len(servers) THEN <<>>
    ELSE IF servers[i].name \in seen
         THEN <<ClsDuplicateServer(servers[i].name)>>
         ELSE ValidateServers(servers, i + 1, seen \cup {servers[i].name})

\* the loop of validate over the depends_on of one service from the j-th on
RECURSIVE ValidateDependencies(_, _, _, _)
ValidateDependencies(cfg, serviceName, deps, j) ==
    IF j > Len(deps) THEN <<>>
    ELSE IF ServicesGet(cfg, deps[j]) = <<>>
         THEN <<ClsUndefinedDep(serviceName, deps[j])>>
         ELSE ValidateDependencies(cfg, serviceName, deps, j + 1)

\* the loop of validate over the services from the k-th on
RECURSIVE ValidateServices(_, _, _, _)
ValidateServices(cfg, entries, k, seen) ==
    IF k > Len(entries) THEN <<>>
    ELSE IF entries[k] \in seen THEN <<ClsDuplicateService(entries[k])>>
    ELSE LET thrown == ValidateDependencies(cfg, entries[k],
                                            DependsOn(cfg, entries[k]), 1)
         IN  IF thrown # <<>> THEN thrown
             ELSE ValidateServices(cfg, entries, k + 1, seen \cup {entries[k]})

\* validate(): the Error of the first violation met, nothing otherwise
ValidateThrown(cfg) ==
    LET thrown == ValidateServers(Servers(cfg), 1, {})
    IN  IF thrown # <<>> THEN thrown
        ELSE ValidateServices(cfg, ServiceEntries(cfg), 1, {})

Validate ==
    /\ cls' = [ClsIdle EXCEPT !.op = "validate",
                              !.threw = ValidateThrown(config) # <<>>,
                              !.error = ValidateThrown(config)]
    /\ UNCHANGED <<valVars, doc, ld, client, sdk, cliVars>>

GetService(name) ==
    /\ LET service == ServicesGet(config, name) IN
        cls' = [ClsIdle EXCEPT !.op = "getService",
                               !.service = name,
                               !.threw = service = <<>>,
                               !.error = When(service = <<>>, ClsServiceNotFound(name)),
                               !.value = service]
    /\ UNCHANGED <<valVars, doc, ld, client, sdk, cliVars>>

\* this.servers.find(s => s.name === name): the first server of that name
Find(servers, name) ==
    LET hits == {i \in 1..Len(servers) : servers[i].name = name}
    IN  IF hits = {} THEN <<>>
        ELSE <<servers[CHOOSE i \in hits : \A j \in hits : i <= j]>>

GetServer(name) ==
    /\ LET server == Find(Servers(config), name) IN
        cls' = [ClsIdle EXCEPT !.op = "getServer",
                               !.server = name,
                               !.threw = server = <<>>,
                               !.error = When(server = <<>>, ClsServerNotFound(name)),
                               !.value = server]
    /\ UNCHANGED <<valVars, doc, ld, client, sdk, cliVars>>

\* the names the accessors are asked for
ServiceLookups == ServiceNames \cup {UndefinedName} \cup ProtoNames

ServerLookups == ServerNameValues \cup {<<"z">>}

NextClass ==
    \/ Validate
    \/ \E name \in ServiceLookups : GetService(name)
    \/ \E name \in ServerLookups : GetServer(name)

SpecClass == Init /\ [][NextClass]_vars

(***************************************************************************)
(* AirstackConfig.load: the values of a parsed TOML document               *)
(***************************************************************************)
\* numbers are held in tenths, so that 15 is the float 1.5
TomlString(str) == [t |-> "string", s |-> str]
TomlNumber(tenths) == [t |-> "number", v10 |-> tenths]
TomlInteger(n) == TomlNumber(10 * n)
TomlBoolean(b) == [t |-> "boolean", b |-> b]
TomlArray(items) == [t |-> "array", items |-> items]
\* a table: its entries, in the order of the document
TomlTable(entries) == [t |-> "object", entries |-> entries]
Entry(k, v) == [key |-> k, val |-> v]

\* table[key]: the value in a one-element sequence, nothing when absent
Get(table, k) ==
    LET hits == {i \in 1..Len(table.entries) : table.entries[i].key = k}
    IN  IF hits = {} THEN <<>>
        ELSE <<table.entries[CHOOSE i \in hits : TRUE].val>>

\* the segment of a path an array index gives once the path is joined
IndexSegment == <<"0", "1", "2", "3">>

(***************************************************************************)
(* The zod schemas of config.ts                                            *)
(***************************************************************************)
ZString == [type |-> "string", min |-> 0]
ZStringMin1 == [type |-> "string", min |-> 1]
ZPositiveInt == [type |-> "number"]
ZBoolean == [type |-> "boolean"]
ZEnum(values) == [type |-> "enum", values |-> values]
ZArray(element) == [type |-> "array", element |-> element, min |-> 0]
ZArrayMin1(element) == [type |-> "array", element |-> element, min |-> 1]
ZRecord(element) == [type |-> "record", element |-> element]
ZObject(shape) == [type |-> "object", shape |-> shape]
Required(k, schema) == [key |-> k, schema |-> schema, optional |-> FALSE]
Optional(k, schema) == [key |-> k, schema |-> schema, optional |-> TRUE]

ServerConfigSchema ==
    ZObject(<<Required("name", ZStringMin1),
              Required("provider", ZStringMin1),
              Required("region", ZStringMin1),
              Required("server_type", ZStringMin1),
              Required("ssh_key", ZStringMin1),
              Optional("floating_ip", ZBoolean)>>)

HealthcheckSchema ==
    ZObject(<<Required("command", ZArrayMin1(ZString)),
              Optional("interval_secs", ZPositiveInt),
              Optional("retries", ZPositiveInt),
              Optional("timeout_secs", ZPositiveInt)>>)

ServiceConfigSchema ==
    ZObject(<<Required("image", ZStringMin1),
              Required("ports", ZArray(ZPositiveInt)),
              Optional("env", ZRecord(ZString)),
              Optional("volumes", ZArray(ZString)),
              Optional("depends_on", ZArray(ZString)),
              Optional("target_server", ZStringMin1),
              Optional("healthcheck", HealthcheckSchema),
              Optional("profile", ZString)>>)

EdgeSiteSchema ==
    ZObject(<<Required("host", ZStringMin1),
              Required("upstream_service", ZStringMin1),
              Required("upstream_port", ZPositiveInt),
              Optional("tls_email", ZString),
              Optional("redirect_http", ZBoolean)>>)

AirstackConfigSchema ==
    ZObject(<<Required("project",
                       ZObject(<<Required("name", ZStringMin1),
                                 Optional("description", ZString),
                                 Optional("deploy_mode", ZEnum({"local", "remote"}))>>)),
              Optional("infra",
                       ZObject(<<Required("servers", ZArray(ServerConfigSchema))>>)),
              Optional("services", ZRecord(ServiceConfigSchema)),
              Optional("edge",
                       ZObject(<<Required("provider", ZStringMin1),
                                 Required("sites", ZArray(EdgeSiteSchema))>>))>>)

(***************************************************************************)
(* AirstackConfigSchema.parse: the issues of a value, in the order zod     *)
(* finds them; path is the issue's path with every segment as join('.')    *)
(* writes it                                                               *)
(***************************************************************************)
Issue(path, message) == [path |-> path, message |-> message]

\* what zod calls the type of a value; an absent value is undefined
ReceivedType(value) == IF value = <<>> THEN "undefined" ELSE value[1].t

InvalidType(expected, value) ==
    IF value = <<>> THEN <<"Required">>
    ELSE <<"Expected", expected, "received", ReceivedType(value)>>

\* z.number().int().positive(): both checks run, each adds its issue
NumberIssues(n, path) ==
    When(n.v10 % 10 # 0, Issue(path, <<"Expected integer, received float">>))
    \o When(n.v10 <= 0, Issue(path, <<"Number must be greater than 0">>))

RECURSIVE Parse(_, _, _)
RECURSIVE ParseShape(_, _, _, _)
RECURSIVE ParseItems(_, _, _, _)
RECURSIVE ParseEntries(_, _, _, _)

\* the issues of value (a one-element sequence, empty for undefined)
Parse(schema, value, path) ==
    IF schema.type = "enum"
    THEN IF ReceivedType(value) # "string"
         THEN <<Issue(path, InvalidType("enum", value))>>
         ELSE When(value[1].s \notin schema.values,
                   Issue(path, <<"Invalid enum value">>))
    ELSE IF ReceivedType(value) # (IF schema.type = "record" THEN "object"
                                    ELSE schema.type)
    THEN <<Issue(path, InvalidType(schema.type, value))>>
    ELSE CASE schema.type = "string" ->
                When(schema.min = 1 /\ value[1].s = "",
                     Issue(path, <<"String must contain at least 1 character(s)">>))
           [] schema.type = "number" -> NumberIssues(value[1], path)
           [] schema.type = "boolean" -> <<>>
           [] schema.type = "array" ->
                When(schema.min = 1 /\ value[1].items = <<>>,
                     Issue(path, <<"Array must contain at least 1 element(s)">>))
                \o ParseItems(schema.element, value[1].items, path, 1)
           [] schema.type = "object" -> ParseShape(schema.shape, value[1], path, 1)
           [] schema.type = "record" ->
                ParseEntries(schema.element, value[1].entries, path, 1)

\* the keys of a z.object from the i-th on: a key that is optional and
\* absent passes, any other is parsed, absent or not
ParseShape(shape, table, path, i) ==
    IF i > Len(shape) THEN <<>>
    ELSE LET field == shape[i]
             value == Get(table, field.key)
         IN  (IF field.optional /\ value = <<>> THEN <<>>
              ELSE Parse(field.schema, value, Append(path, field.key)))
             \o ParseShape(shape, table, path, i + 1)

\* the elements of a z.array from the i-th on
ParseItems(element, items, path, i) ==
    IF i > Len(items) THEN <<>>
    ELSE Parse(element, <<items[i]>>, Append(path, IndexSegment[i]))
         \o ParseItems(element, items, path, i + 1)

\* the entries of a z.record from the i-th on
ParseEntries(element, entries, path, i) ==
    IF i > Len(entries) THEN <<>>
    ELSE Parse(element, <<entries[i].val>>, Append(path, entries[i].key))
         \o ParseEntries(element, entries, path, i + 1)

RECURSIVE Join(_, _)
\* path.join('.'): the segments with the separator between them
Join(path, sep) ==
    IF Len(path) <= 1 THEN path
    ELSE <<path[1], sep>> \o Join(Tail(path), sep)

\* `  ${err.path.join('.')}: ${err.message}`
Line(issue) == <<"  ">> \o Join(issue.path, ".") \o <<": ">> \o issue.message

\* error.errors.map(...): one line per issue; join('\n') keeps them apart
FormattedErrors_FirstOnly(issues) == <<Line(issues[1])>>

FormattedErrors(issues) == [i \in 1..Len(issues) |-> Line(issues[i])]

\* AirstackConfig.load(path): readFileSync or parseToml throw, or the
\* schema rejects the parsed document, or the instance is returned
Load ==
    /\ doc.kind # "none"
    /\ ld' =
         IF doc.kind # "parsed"
         THEN [LdIdle EXCEPT !.op = "load", !.threw = TRUE,
                             !.head = "Failed to load configuration: "]
         ELSE LET issues == Parse(AirstackConfigSchema, <<doc.root>>, <<>>)
              IN  IF issues = <<>>
                  THEN [LdIdle EXCEPT !.op = "load", !.model = <<doc.root>>]
                  ELSE [LdIdle EXCEPT !.op = "load", !.threw = TRUE,
                                      !.head = "Configuration validation failed:",
                                      !.lines = FormattedErrors(issues)]
    /\ UNCHANGED <<valVars, cls, doc, client, sdk, cliVars>>

(***************************************************************************)
(* The documents load is called on: a document the schema accepts, with    *)
(* up to MaxFaults of its values replaced or removed                       *)
(***************************************************************************)
BaseDocument ==
    TomlTable(<<
        Entry("project", TomlTable(<<Entry("name", TomlString("p")),
                                     Entry("deploy_mode", TomlString("local"))>>)),
        Entry("infra", TomlTable(<<Entry("servers", TomlArray(<<
            TomlTable(<<Entry("name", TomlString("e")),
                        Entry("provider", TomlString("hetzner")),
                        Entry("region", TomlString("r")),
                        Entry("server_type", TomlString("t")),
                        Entry("ssh_key", TomlString("k")),
                        Entry("floating_ip", TomlBoolean(TRUE))>>)>>))>>)),
        Entry("services", TomlTable(<<Entry("a", TomlTable(<<
            Entry("image", TomlString("n")),
            Entry("ports", TomlArray(<<TomlInteger(80)>>)),
            Entry("depends_on", TomlArray(<<TomlString("b")>>)),
            Entry("healthcheck", TomlTable(<<
                Entry("command", TomlArray(<<TomlString("c")>>)),
                Entry("retries", TomlInteger(3))>>))>>))>>)),
        Entry("edge", TomlTable(<<
            Entry("provider", TomlString("caddy")),
            Entry("sites", TomlArray(<<
                TomlTable(<<Entry("host", TomlString("h")),
                            Entry("upstream_service", TomlString("a")),
                            Entry("upstream_port", TomlInteger(80))>>)>>))>>))
    >>)

\* a change of the base document: the value at path is replaced by new, or
\* removed when new is empty; violations is the number of schema
\* violations the change plants
Fault(path, new, violations) ==
    [path |-> path, new |-> new, violations |-> violations]

FaultSites ==
    <<Fault(<<"project", "name">>, <<TomlString("")>>, 1),
      Fault(<<"project", "name">>, <<>>, 1),
      Fault(<<"project", "name">>, <<TomlInteger(5)>>, 1),
      Fault(<<"project", "deploy_mode">>, <<TomlString("x")>>, 1),
      Fault(<<"project", "deploy_mode">>, <<>>, 0),
      Fault(<<"project">>, <<>>, 1),
      Fault(<<"infra">>, <<>>, 0),
      Fault(<<"infra", "servers">>, <<>>, 1),
      Fault(<<"infra", "servers", "0", "region">>, <<TomlString("")>>, 1),
      Fault(<<"infra", "servers", "0", "ssh_key">>, <<>>, 1),
      Fault(<<"infra", "servers", "0", "floating_ip">>, <<TomlString("yes")>>, 1),
      Fault(<<"services", "a", "image">>, <<TomlString("")>>, 1),
      Fault(<<"services", "a", "ports">>, <<TomlString("80")>>, 1),
      Fault(<<"services", "a", "ports", "0">>, <<TomlInteger(0)>>, 1),
      Fault(<<"services", "a", "ports", "0">>, <<TomlNumber(15)>>, 1),
      Fault(<<"services", "a", "ports", "0">>, <<TomlNumber(-15)>>, 2),
      Fault(<<"services", "a", "depends_on", "0">>, <<TomlInteger(5)>>, 1),
      Fault(<<"services", "a", "healthcheck", "command">>, <<TomlArray(<<>>)>>, 1),
      Fault(<<"services", "a", "healthcheck", "retries">>, <<TomlInteger(0)>>, 1),
      Fault(<<"edge", "provider">>, <<TomlString("")>>, 1),
      Fault(<<"edge", "sites", "0", "host">>, <<>>, 1),
      Fault(<<"edge", "sites", "0", "upstream_port">>, <<TomlInteger(-1)>>, 1)>>

\* entries without the entry of key k
Without(entries, k) ==
    LET j == CHOOSE j \in 1..Len(entries) : entries[j].key = k
    IN  SubSeq(entries, 1, j - 1) \o SubSeq(entries, j + 1, Len(entries))

RECURSIVE Put(_, _, _, _)
\* value with the fault applied from the i-th segment of its path on
Put(value, fault, i, last) ==
    IF value.t = "array"
    THEN TomlArray([j \in 1..Len(value.items) |->
            IF IndexSegment[j] # fault.path[i] THEN value.items[j]
            ELSE IF last THEN fault.new[1]
            ELSE Put(value.items[j], fault, i + 1, i + 1 = Len(fault.path))])
    ELSE IF last /\ fault.new = <<>>
    THEN TomlTable(Without(value.entries, fault.path[i]))
    ELSE TomlTable([j \in 1..Len(value.entries) |->
            IF value.entries[j].key # fault.path[i] THEN value.entries[j]
            ELSE Entry(value.entries[j].key,
                       IF last THEN fault.new[1]
                       ELSE Put(value.entries[j].val, fault, i + 1,
                                i + 1 = Len(fault.path)))])

RECURSIVE ApplyFaults(_, _, _)
ApplyFaults(value, ids, i) ==
    IF i > Len(ids) THEN value
    ELSE ApplyFaults(Put(value, FaultSites[ids[i]], 1,
                         Len(FaultSites[ids[i]].path) = 1), ids, i + 1)

IsPrefix(p, q) == Len(p) <= Len(q) /\ SubSeq(q, 1, Len(p)) = p

\* the faults of ids touch separate parts of the document
Independent(ids) ==
    \A i, j \in 1..Len(ids) :
        i < j => /\ ids[i] < ids[j]
                 /\ ~IsPrefix(FaultSites[ids[i]].path, FaultSites[ids[j]].path)
                 /\ ~IsPrefix(FaultSites[ids[j]].path, FaultSites[ids[i]].path)

FaultChoices ==
    {ids \in BoundedSeq(1..Len(FaultSites), MaxFaults) : Independent(ids)}

Documents(d) ==
    \/ d \in {[kind |-> k, faults |-> <<>>, root |-> <<>>] :
                 k \in {"unreadable", "syntax"}}
    \/ \E ids \in FaultChoices :
          d = [kind |-> "parsed", faults |-> ids,
               root |-> ApplyFaults(BaseDocument, ids, 1)]

\* no AirstackConfig has been built
NoConfig == AirstackConfig(<<>>, FALSE, <<>>, FALSE, <<>>, NoServices, FALSE, <<>>)

\* validateConfig has not been called
ValIdle ==
    /\ config = NoConfig
    /\ pc = "project"
    /\ errors = <<>>
    /\ warnings = <<>>
    /\ serverNames = {}
    /\ si = 1
    /\ serviceNames = {}
    /\ ki = 1
    /\ visited = {}
    /\ visiting = {}
    /\ stack = <<>>
    /\ call = <<>>
    /\ ret = <<>>
    /\ ri = 1
    /\ result = NoResult
    /\ first = <<>>

InitLoad ==
    /\ ValIdle
    /\ cls = ClsIdle
    /\ Documents(doc)
    /\ ld = LdIdle
    /\ client = NoClient
    /\ sdk = SdkIdle
    /\ CliIdle

NextLoad == Load

SpecLoad == InitLoad /\ [][NextLoad]_vars

(***************************************************************************)
(* JSON.parse on the texts the binary prints: numbers and arrays           *)
(***************************************************************************)
JsonNumber(n) == [t |-> "number", n |-> n]
JsonArray(items) == [t |-> "array", items |-> items]

JsonDigit == [c \in {"0", "1"} |-> IF c = "0" THEN 0 ELSE 1]

\* a parse step: the value read, if any, and the position after it
Parsed(v, next) == [ok |-> TRUE, val |-> <<v>>, next |-> next]
SyntaxError == [ok |-> FALSE, val |-> <<>>, next |-> 0]

RECURSIVE SkipWhiteSpace(_, _)
SkipWhiteSpace(text, i) ==
    IF i <= Len(text) /\ text[i] = " " THEN SkipWhiteSpace(text, i + 1) ELSE i

RECURSIVE ParseDigits(_, _, _)
\* the digits from the i-th character on, after a number that reads acc
ParseDigits(text, i, acc) ==
    IF i <= Len(text) /\ text[i] \in DOMAIN JsonDigit
    THEN ParseDigits(text, i + 1, 10 * acc + JsonDigit[text[i]])
    ELSE Parsed(JsonNumber(acc), i)

RECURSIVE ParseValue(_, _)
RECURSIVE ParseElements(_, _, _)

\* the value that starts at the i-th character, white space skipped
ParseValue(text, i) ==
    LET j == SkipWhiteSpace(text, i) IN
    IF j > Len(text) THEN SyntaxError
    ELSE IF text[j] = "0" THEN Parsed(JsonNumber(0), j + 1)
    ELSE IF text[j] \in DOMAIN JsonDigit THEN ParseDigits(text, j, 0)
    ELSE IF text[j] = "["
         THEN LET k == SkipWhiteSpace(text, j + 1) IN
              IF k <= Len(text) /\ text[k] = "]"
              THEN Parsed(JsonArray(<<>>), k + 1)
              ELSE ParseElements(text, k, <<>>)
    ELSE SyntaxError

\* the elements of an array from the i-th character on, after items
ParseElements(text, i, items) ==
    LET element == ParseValue(text, i) IN
    IF ~element.ok THEN SyntaxError
    ELSE LET k == SkipWhiteSpace(text, element.next) IN
         IF k > Len(text) THEN SyntaxError
         ELSE IF text[k] = "]"
              THEN Parsed(JsonArray(items \o element.val), k + 1)
         ELSE IF text[k] = ","
              THEN ParseElements(text, k + 1, items \o element.val)
         ELSE SyntaxError

\* JSON.parse(text): the value in a one-element sequence, nothing when it
\* throws a SyntaxError
JsonParse(text) ==
    LET value == ParseValue(text, 1) IN
    IF value.ok /\ SkipWhiteSpace(text, value.next) > Len(text)
    THEN value.val
    ELSE <<>>

(***************************************************************************)
(* The AirstackClient class: run, runJson, statusJson                      *)
(***************************************************************************)
\* withGlobalArgs: an undefined or empty configPath adds nothing
WithGlobalArgs(args) ==
    IF client.configPath = <<>> \/ client.configPath[1] = "" THEN args
    ELSE <<"--config", client.configPath[1]>> \o args

\* result.exitCode ?? 1
ExitCode_OrOne(child) ==
    IF child.exitCode = <<>> \/ child.exitCode[1] = 0 THEN 1
    ELSE child.exitCode[1]

ExitCode(child) == IF child.exitCode = <<>> THEN 1 ELSE child.exitCode[1]

\* the AirstackCommandResult run resolves with
CommandResult(child) ==
    [stdout |-> child.stdout, stderr |-> child.stderr, exitCode |-> ExitCode(child)]

\* the arguments runJson hands to run
JsonArgs_Appended(args) == args \o <<"--json">>

JsonArgs(args) == <<"--json">> \o args

\* the arguments of statusJson
StatusArgs(detailed) == <<"status">> \o When(detailed, "--detailed")

\* run(args): execa with reject: false resolves whatever the child does
Run(args) ==
    /\ sdk' = [SdkIdle EXCEPT !.op = "run",
                              !.argv = WithGlobalArgs(args),
                              !.child = client.binary,
                              !.value = <<CommandResult(client.binary)>>]
    /\ UNCHANGED <<valVars, cls, doc, ld, client, cliVars>>

\* what runJson comes to once run has resolved: the exit code is looked at
\* first, stdout is parsed only after it
RunJsonOutcome_ParseFirst(op, args, child) ==
    LET resolved == CommandResult(child)
        called == [SdkIdle EXCEPT !.op = op,
                                  !.argv = WithGlobalArgs(JsonArgs(args)),
                                  !.child = child]
    IN  IF JsonParse(resolved.stdout) # <<>>
        THEN [called EXCEPT !.value = JsonParse(resolved.stdout)]
        ELSE IF resolved.exitCode # 0
        THEN [called EXCEPT !.threw = TRUE, !.error = "Airstack command failed"]
        ELSE [called EXCEPT !.threw = TRUE, !.error = "Failed to parse JSON output"]

RunJsonOutcome(op, args, child) ==
    LET resolved == CommandResult(child)
        called == [SdkIdle EXCEPT !.op = op,
                                  !.argv = WithGlobalArgs(JsonArgs(args)),
                                  !.child = child]
    IN  IF resolved.exitCode # 0
        THEN [called EXCEPT !.threw = TRUE, !.error = "Airstack command failed"]
        ELSE IF JsonParse(resolved.stdout) = <<>>
        THEN [called EXCEPT !.threw = TRUE, !.error = "Failed to parse JSON output"]
        ELSE [called EXCEPT !.value = JsonParse(resolved.stdout)]

RunJson(args) ==
    /\ sdk' = RunJsonOutcome("runJson", args, client.binary)
    /\ UNCHANGED <<valVars, cls, doc, ld, client, cliVars>>

StatusJson(detailed) ==
    /\ sdk' = RunJsonOutcome(IF detailed THEN "statusJson(true)" ELSE "statusJson(false)",
                             StatusArgs(detailed), client.binary)
    /\ UNCHANGED <<valVars, cls, doc, ld, client, cliVars>>

\* what the child process may do: print, and exit with a code or without
JsonChars == {"0", "1", "[", "]", ",", " "}

ExitCodes == {<<>>, <<0>>, <<1>>, <<7>>}

Children ==
    [stdout : BoundedSeq(JsonChars, MaxOut),
     stderr : {<<>>, <<"e">>},
     exitCode : ExitCodes]

CommandArgs == {<<"status">>, <<"--version">>, <<"up", "--detailed">>}

ConfigPaths == {<<>>, <<"">>, <<"/tmp/airstack.toml">>}

InitSdk ==
    /\ ValIdle
    /\ cls = ClsIdle
    /\ doc = NoDoc
    /\ ld = LdIdle
    /\ client \in [configPath : ConfigPaths, binary : Children]
    /\ sdk = SdkIdle
    /\ CliIdle

NextSdk ==
    \/ \E args \in CommandArgs : Run(args)
    \/ \E args \in CommandArgs : RunJson(args)
    \/ \E detailed \in BOOLEAN : StatusJson(detailed)

SpecSdk == InitSdk /\ [][NextSdk]_vars

(***************************************************************************)
(* Binary resolution: resolveAirstackBinaryPath                            *)
(***************************************************************************)
\* platformBinaryName()
PlatformBinaryName(platform) ==
    IF platform = "win32" THEN "airstack.exe" ELSE "airstack"

\* `${platform}-${arch}` on the machines of the model, which are all x64
PlatformArch(platform) ==
    IF platform = "win32" THEN "win32-x64" ELSE "linux-x64"

\* getBinaryCandidates(): paths are sequences of segments below the
\* package root
GetBinaryCandidates(platform) ==
    << <<"bin", PlatformBinaryName(platform)>>,
       <<"bin", PlatformArch(platform), PlatformBinaryName(platform)>>,
       <<"target", "release", PlatformBinaryName(platform)>>,
       <<"target", "debug", PlatformBinaryName(platform)>> >>

\* existsSync(path)
ExistsSync(h, path) == path \in h.exists

\* for (const path of paths) if (existsSync(path)) return path, from the
\* i-th path on
FirstExisting_Last(h, paths, i) ==
    LET hits == {j \in i..Len(paths) : ExistsSync(h, paths[j])}
    IN  IF hits = {} THEN <<>>
        ELSE <<paths[CHOOSE j \in hits : \A k \in hits : k <= j]>>

RECURSIVE FirstExisting(_, _, _)
FirstExisting(h, paths, i) ==
    IF i > Len(paths) THEN <<>>
    ELSE IF ExistsSync(h, paths[i]) THEN <<paths[i]>>
    ELSE FirstExisting(h, paths, i + 1)

\* hasAirstackInPath(): spawnSync('airstack', ['--version']).status === 0
HasAirstackInPath(h) == h.inPath = <<0>>

BinReturned(path) == [BinIdle EXCEPT !.op = "resolve", !.value = <<path>>]

BinThrew(message) == [BinIdle EXCEPT !.op = "resolve", !.threw = TRUE, !.error = message]

\* what resolveAirstackBinaryPath comes to on machine h; an empty
\* AIRSTACK_BINARY is falsy and is passed over like an unset one
ResolveOutcome(h) ==
    LET envPath == h.AIRSTACK_BINARY
        found == FirstExisting(h, GetBinaryCandidates(h.platform), 1)
    IN  IF envPath # <<>> /\ envPath[1] # <<>>
        THEN IF ExistsSync(h, envPath[1])
             THEN BinReturned(envPath[1])
             ELSE BinThrew("AIRSTACK_BINARY is set but does not exist")
        ELSE IF found # <<>> THEN BinReturned(found[1])
        ELSE IF HasAirstackInPath(h) THEN BinReturned(<<"airstack">>)
        ELSE BinThrew("Airstack binary not found")

ResolveAirstackBinaryPath ==
    /\ bin' = ResolveOutcome(host)
    /\ UNCHANGED <<valVars, cls, doc, ld, client, sdk, host, cli, childProc>>

\* the machines binary resolution is run on
Platforms == {"linux", "win32"}

OptPath == <<"opt", "airstack">>

EnvPaths(platform) ==
    {<<>>, << <<>> >>, <<OptPath>>, <<GetBinaryCandidates(platform)[3]>>}

Hosts ==
    UNION {[platform : {platform},
            AIRSTACK_BINARY : EnvPaths(platform),
            exists : SUBSET (Range(GetBinaryCandidates(platform)) \cup {OptPath}),
            inPath : {<<>>, <<0>>, <<1>>},
            version : {TRUE},
            starts : {TRUE}] : platform \in Platforms}

InitBinary ==
    /\ ValIdle
    /\ cls = ClsIdle
    /\ doc = NoDoc
    /\ ld = LdIdle
    /\ client = NoClient
    /\ sdk = SdkIdle
    /\ host \in Hosts
    /\ bin = BinIdle
    /\ cli = CliNone
    /\ childProc = NoProcess

NextBinary == ResolveAirstackBinaryPath

SpecBinary == InitBinary /\ [][NextBinary]_vars

(***************************************************************************)
(* The CLI wrapper: main of cli.ts, the spawned airstack process, and the  *)
(* signals the operating system delivers to the wrapper                    *)
(***************************************************************************)
\* possiblePaths of getBinaryPath
PossiblePaths(platform) ==
    << <<"bin", PlatformBinaryName(platform)>>,
       <<"bin", PlatformArch(platform), PlatformBinaryName(platform)>>,
       <<"target", "release", PlatformBinaryName(platform)>>,
       <<"target", "debug", PlatformBinaryName(platform)>> >>

\* process.exit(code)
Exit(code, why) == [cli EXCEPT !.pc = "exited", !.exitCode = <<code>>, !.cause = why]

\* getBinaryPath() at the start of main: the first existing path, or the
\* Error that the catch of main turns into exit code 1
GetBinaryPath ==
    /\ cli.pc = "resolve"
    /\ LET found == FirstExisting(host, PossiblePaths(host.platform), 1) IN
        cli' = IF found # <<>>
               THEN [cli EXCEPT !.pc = "probe", !.binaryPath = found]
               ELSE Exit(1, "catch")
    /\ UNCHANGED <<valVars, cls, doc, ld, client, sdk, host, bin, childProc>>

\* execSync(`"${binaryPath}" --version`): on failure exit code 1
ProbeVersion ==
    /\ cli.pc = "probe"
    /\ cli' = IF host.version THEN [cli EXCEPT !.pc = "spawn"] ELSE Exit(1, "probe")
    /\ UNCHANGED <<valVars, cls, doc, ld, client, sdk, host, bin, childProc>>

\* spawn(binaryPath, args) and the registration of the 'error' and 'exit'
\* listeners of the child; a child that cannot be started emits 'error'
SpawnChild ==
    /\ cli.pc = "spawn"
    /\ childProc' = IF host.starts
                THEN [NoProcess EXCEPT !.state = "running"]
                ELSE [NoProcess EXCEPT !.state = "failed", !.event = <<"error">>]
    /\ cli' = [cli EXCEPT !.pc = "sigint"]
    /\ UNCHANGED <<valVars, cls, doc, ld, client, sdk, host, bin>>

\* process.on('SIGINT', ...)
OnSigint ==
    /\ cli.pc = "sigint"
    /\ cli' = [cli EXCEPT !.pc = "sigterm", !.handlers = @ \cup {"SIGINT"}]
    /\ UNCHANGED <<valVars, cls, doc, ld, client, sdk, host, bin, childProc>>

\* process.on('SIGTERM', ...), after which main returns to the event loop
OnSigterm ==
    /\ cli.pc = "sigterm"
    /\ cli' = [cli EXCEPT !.pc = "loop", !.handlers = @ \cup {"SIGTERM"}]
    /\ UNCHANGED <<valVars, cls, doc, ld, client, sdk, host, bin, childProc>>

WrapperAlive == cli.pc \notin {"none", "exited", "killed"}

\* the operating system delivers sig to the wrapper: with a listener for
\* sig the signal becomes an event for the event loop, without one its
\* default action terminates the process
SignalDelivered(sig) ==
    /\ WrapperAlive
    /\ Len(cli.signals) < MaxSignals
    /\ cli' = IF sig \in cli.handlers
              THEN [cli EXCEPT !.signals = Append(@, sig), !.pending = Append(@, sig)]
              ELSE [cli EXCEPT !.signals = Append(@, sig), !.pc = "killed", !.cause = sig]
    /\ UNCHANGED <<valVars, cls, doc, ld, client, sdk, host, bin, childProc>>

\* the listener of a signal runs: child.kill(sig), which reaches the child
\* only while it runs
ForwardSignal ==
    /\ cli.pc = "loop"
    /\ cli.pending # <<>>
    /\ LET sig == Head(cli.pending) IN
        /\ cli' = [cli EXCEPT !.pending = Tail(@), !.forwarded = Append(@, sig)]
        /\ childProc' = IF childProc.state = "running"
                    THEN [childProc EXCEPT !.received = Append(@, sig)]
                    ELSE childProc
    /\ UNCHANGED <<valVars, cls, doc, ld, client, sdk, host, bin>>

ChildExitCodes == {0, 1, 7}

\* the child exits on its own account
ChildExits(code) ==
    /\ childProc.state = "running"
    /\ childProc' = [childProc EXCEPT !.state = "exited", !.code = <<code>>, !.event = <<"exit">>]
    /\ UNCHANGED <<valVars, cls, doc, ld, client, sdk, host, bin, cli>>

\* the child is terminated by a signal it was sent, or by SIGKILL
ChildTerminated(sig) ==
    /\ childProc.state = "running"
    /\ sig \in Range(childProc.received) \cup {"SIGKILL"}
    /\ childProc' = [childProc EXCEPT !.state = "exited", !.signal = <<sig>>, !.event = <<"exit">>]
    /\ UNCHANGED <<valVars, cls, doc, ld, client, sdk, host, bin, cli>>

\* the code the 'error' and 'exit' listeners pass to process.exit
ExitStatus_SignalAsSuccess(proc) ==
    IF proc.event = <<"error">> THEN <<1>>
    ELSE IF proc.signal # <<>> THEN <<0>>
    ELSE proc.code

ExitStatus(proc) ==
    IF proc.event = <<"error">> THEN <<1>>
    ELSE IF proc.signal # <<>> THEN <<1>>
    ELSE proc.code

\* the event loop runs the listener of the child's 'error' or 'exit' event
HandleChildEvent ==
    /\ cli.pc = "loop"
    /\ childProc.event # <<>>
    /\ cli' = IF ExitStatus(childProc) # <<>>
              THEN Exit(ExitStatus(childProc)[1], childProc.event[1])
              ELSE cli
    /\ childProc' = [childProc EXCEPT !.event = <<>>]
    /\ UNCHANGED <<valVars, cls, doc, ld, client, sdk, host, bin>>

\* the machines the wrapper is started on
CliHosts ==
    [platform : {"linux"},
     AIRSTACK_BINARY : {<<>>},
     exists : {{}, {PossiblePaths("linux")[4]},
               {PossiblePaths("linux")[1], PossiblePaths("linux")[3]}},
     inPath : {<<>>, <<0>>},
     version : BOOLEAN,
     starts : BOOLEAN]

WrapperSignals == {"SIGINT", "SIGTERM"}

InitCli ==
    /\ ValIdle
    /\ cls = ClsIdle
    /\ doc = NoDoc
    /\ ld = LdIdle
    /\ client = NoClient
    /\ sdk = SdkIdle
    /\ host \in CliHosts
    /\ bin = BinIdle
    /\ cli = [CliNone EXCEPT !.pc = "resolve"]
    /\ childProc = NoProcess

NextCli ==
    \/ GetBinaryPath
    \/ ProbeVersion
    \/ SpawnChild
    \/ OnSigint
    \/ OnSigterm
    \/ \E sig \in WrapperSignals : SignalDelivered(sig)
    \/ ForwardSignal
    \/ \E code \in ChildExitCodes : ChildExits(code)
    \/ \E sig \in WrapperSignals \cup {"SIGKILL"} : ChildTerminated(sig)
    \/ HandleChildEvent

SpecCli == InitCli /\ [][NextCli]_vars

(***************************************************************************)
(* Vocabulary of the properties                                            *)
(***************************************************************************)
Keys(cfg) == DOMAIN cfg.services

\* the call is over: it returned a ValidationResult or it threw
Returned == pc = "done"
Threw == pc = "threw"
Over == Returned \/ Threw

Count(seq, e) == Cardinality({i \in 1..Len(seq) : seq[i] = e})

CountKind(seq, k) == Cardinality({i \in 1..Len(seq) : seq[i].kind = k})

AllDepsDefined(cfg) ==
    \A s \in Keys(cfg) : Range(DependsOn(cfg, s)) \subseteq Keys(cfg)

\* the services s depends on directly
Succ(cfg, s) == Range(DependsOn(cfg, s)) \cap Keys(cfg)

RECURSIVE Closure(_, _)
Closure(cfg, S) ==
    LET T == S \cup UNION {Succ(cfg, n) : n \in S}
    IN  IF T = S THEN S ELSE Closure(cfg, T)

\* the services s depends on, directly or transitively
ReachableFrom(cfg, s) == Closure(cfg, Succ(cfg, s))

OnCycle(cfg, s) == s \in ReachableFrom(cfg, s)

HasCycle(cfg) == \E s \in Keys(cfg) : OnCycle(cfg, s)

CircularErrors(errs) == CountKind(errs, "CircularDependency")

(***************************************************************************)
(* C1: validateConfig never raises: for every well-typed model, services   *)
(* whose depends_on names an undefined service included, the call returns  *)
(* a ValidationResult instead of throwing.                                 *)
(***************************************************************************)
C1_NeverRaises == ~Threw

(***************************************************************************)
(* C2: for every service s and every name d of s.depends_on that is not a  *)
(* key of the services mapping, the call returns a ValidationResult whose  *)
(* errors hold an undefined-dependency entry for (s, d); for a single      *)
(* service with an empty image, ports [3000] and depends_on [db] the       *)
(* errors are exactly the empty-image and the undefined-dependency error.  *)
(***************************************************************************)
C2_UndefinedDependencyReported ==
    Over =>
        /\ \A s \in Keys(config) :
             \A d \in Range(DependsOn(config, s)) \ Keys(config) :
                /\ Returned
                /\ ErrUndefinedDep(s, d) \in Range(result.errors)
        /\ ( /\ config.order = <<"a">>
             /\ config.services["a"] =
                  ServiceConfig(<<>>, <<3000>>, FALSE, <<>>, TRUE, <<UndefinedName>>) )
           => /\ Returned
              /\ result.errors = <<ErrNoImage("a"), ErrUndefinedDep("a", UndefinedName)>>

(***************************************************************************)
(* C3: when all depends_on names are defined and the depends_on graph has  *)
(* a cycle of any length >= 1, validateConfig returns valid = false with   *)
(* at least one circular-dependency error.                                 *)
(***************************************************************************)
C3_CycleReported ==
    (Over /\ AllDepsDefined(config) /\ HasCycle(config)) =>
        /\ Returned
        /\ ~result.valid
        /\ CircularErrors(result.errors) >= 1

C3_Witness ==
    /\ Returned
    /\ config.order = <<"a", "b", "c">>
    /\ DependsOn(config, "a") = <<"b">>
    /\ DependsOn(config, "b") = <<"c">>
    /\ DependsOn(config, "c") = <<"a">>
    /\ ~result.valid
    /\ CircularErrors(result.errors) >= 1

(***************************************************************************)
(* C4: when all depends_on names are defined and the depends_on graph is   *)
(* acyclic, validateConfig emits no circular-dependency error, whatever    *)
(* the declaration order and however many services share a dependency.     *)
(***************************************************************************)
C4_AcyclicPasses ==
    (AllDepsDefined(config) /\ ~HasCycle(config)) =>
        /\ ~Threw
        /\ CircularErrors(errors) = 0
        /\ CircularErrors(result.errors) = 0

\* c is shared by a and b, and a is declared before what it depends on
C4_Witness ==
    /\ Returned
    /\ config.order = <<"a", "b", "c">>
    /\ DependsOn(config, "a") = <<"b", "c">>
    /\ DependsOn(config, "b") = <<"c">>
    /\ DependsOn(config, "c") = <<>>
    /\ result.valid

(***************************************************************************)
(* C5: every service named in a circular-dependency error lies on a        *)
(* directed cycle of the depends_on graph.                                 *)
(***************************************************************************)
C5_ReportedServiceOnCycle ==
    (Returned /\ AllDepsDefined(config)) =>
        \A i \in 1..Len(result.errors) :
            result.errors[i].kind = "CircularDependency"
                => OnCycle(config, result.errors[i].service)

(***************************************************************************)
(* C6: in every ValidationResult returned, valid is true exactly when      *)
(* errors is empty, whatever the warnings.                                 *)
(***************************************************************************)
C6_ValidIffNoErrors ==
    Returned => (result.valid <=> result.errors = <<>>)

C6_Witness ==
    /\ Returned
    /\ result.valid
    /\ result.warnings # <<>>

(***************************************************************************)
(* C7: one duplicate-name error per repeat occurrence of a server name:    *)
(* after any number of servers have been examined, a name that occurred N  *)
(* times among them has N-1 'Duplicate server name' errors (none when it   *)
(* occurred once, so the first occurrence is never flagged), and so has    *)
(* the result returned.                                                    *)
(***************************************************************************)
Occurrences(servers, n) ==
    Cardinality({i \in 1..Len(servers) : servers[i].name = n})

Repeats(servers, n) ==
    IF Occurrences(servers, n) = 0 THEN 0 ELSE Occurrences(servers, n) - 1

C7_OneErrorPerRepeat ==
    config.has_infra =>
        \A n \in {config.servers[i].name : i \in 1..Len(config.servers)} :
            /\ Count(errors, ErrDuplicateServer(n))
                 = Repeats(SubSeq(config.servers, 1, si - 1), n)
            /\ Returned =>
                 Count(result.errors, ErrDuplicateServer(n)) = Repeats(config.servers, n)

C7_Witness ==
    /\ Returned
    /\ \E n \in ServerNameValues :
          /\ Occurrences(config.servers, n) = 3
          /\ Count(result.errors, ErrDuplicateServer(n)) = 2

(***************************************************************************)
(* C8: for every service and every port p of its ports, an invalid-port    *)
(* error for p is emitted iff p < 1 or p > 65535; a port in [1, 1023]      *)
(* gives a privileged-port warning and no error; a port in [1024, 65535]   *)
(* gives neither; a service with image nginx and ports [80, 443] is valid  *)
(* with two privileged-port warnings.                                      *)
(***************************************************************************)
C8_PortRanges ==
    Returned =>
        /\ \A s \in Keys(config) :
             \A p \in Range(config.services[s].ports) :
                /\ (ErrInvalidPort(s, p) \in Range(result.errors))
                      <=> (p < 1 \/ p > 65535)
                /\ (1 <= p /\ p <= 1023)
                      => WarnPrivilegedPort(s, p) \in Range(result.warnings)
                /\ (1024 <= p /\ p <= 65535)
                      => WarnPrivilegedPort(s, p) \notin Range(result.warnings)
        /\ ( /\ config.order = <<"a">>
             /\ config.services["a"] =
                  ServiceConfig(DefaultImage, <<80, 443>>, FALSE, <<>>, FALSE, <<>>) )
           => /\ result.valid
              /\ result.warnings =
                   <<WarnPrivilegedPort("a", 80), WarnPrivilegedPort("a", 443)>>

C8_Witness ==
    /\ Returned
    /\ config.order = <<"a">>
    /\ config.services["a"].ports = <<1023, 65536>>
    /\ result.errors = <<ErrInvalidPort("a", 65536)>>
    /\ result.warnings = <<WarnPrivilegedPort("a", 1023)>>

(***************************************************************************)
(* C9: when the model has an edge configuration, a site whose              *)
(* upstream_service is not a defined service, or whose upstream_port is    *)
(* outside [1, 65535], makes the result invalid.                           *)
(***************************************************************************)
BadSite(cfg, site) ==
    \/ site.upstream_service \notin Keys(cfg)
    \/ site.upstream_port < 1
    \/ site.upstream_port > 65535

C9_EdgeSitesChecked ==
    (Returned /\ config.has_edge /\ \E i \in 1..Len(config.sites) :
                                        BadSite(config, config.sites[i]))
        => ~result.valid

(***************************************************************************)
(* C10: a model with a non-blank project name, non-blank and pairwise      *)
(* distinct server names, a non-blank image for every service, every port  *)
(* in [1, 65535], every depends_on name defined and an acyclic depends_on  *)
(* graph is returned valid with no error, whatever its warnings.           *)
(***************************************************************************)
NonBlank(s) == \E i \in 1..Len(s) : s[i] \notin WhiteSpace

ValidModel(cfg) ==
    /\ NonBlank(cfg.name)
    /\ \A i \in 1..Len(cfg.servers) :
          /\ NonBlank(cfg.servers[i].name)
          /\ \A j \in 1..Len(cfg.servers) :
                cfg.servers[i].name = cfg.servers[j].name => i = j
    /\ \A s \in Keys(cfg) :
          /\ NonBlank(cfg.services[s].image)
          /\ \A p \in Range(cfg.services[s].ports) : 1 <= p /\ p <= 65535
    /\ AllDepsDefined(cfg)
    /\ ~HasCycle(cfg)

C10_ValidModelAccepted ==
    ValidModel(config) =>
        /\ ~Threw
        /\ errors = <<>>
        /\ Returned => (result.valid /\ result.errors = <<>>)

C10_Witness ==
    /\ Returned
    /\ ValidModel(config)
    /\ Includes(config.name, " ")
    /\ Keys(config) # {}
    /\ result.valid
    /\ CountKind(result.warnings, "PrivilegedPort") >= 1

(***************************************************************************)
(* C17: a server whose provider is a documented supported provider         *)
(* (hetzner, fly) gets no unknown-provider warning; a server with any      *)
(* other provider gets exactly one such warning and no error.              *)
(***************************************************************************)
DocumentedProviders == {"hetzner", "fly"}

C17_DocumentedProvidersTrusted ==
    Returned =>
        /\ \A i \in 1..Len(config.servers) :
              config.servers[i].provider \in DocumentedProviders =>
                 Count(result.warnings,
                       WarnUnknownProvider(config.servers[i].provider,
                                           config.servers[i].name)) = 0
        /\ CountKind(result.warnings, "UnknownProvider") =
              Cardinality({i \in 1..Len(config.servers) :
                              config.servers[i].provider \notin DocumentedProviders})
        /\ CountKind(result.errors, "UnknownProvider") = 0

(***************************************************************************)
(* C18: at every step of the cycle check, the start of a new root          *)
(* included, the visiting set holds exactly the services whose             *)
(* checkCircularDeps calls are active.                                     *)
(***************************************************************************)
ActiveCalls == {stack[i].name : i \in 1..Len(stack)}

C18_VisitingIsRecursionStack ==
    (pc = "cycle" /\ AllDepsDefined(config)) => visiting = ActiveCalls

(***************************************************************************)
(* C19: when a call finds its dependency in progress, the recursive call   *)
(* returns true without touching errors or the stack, and the call that    *)
(* receives true appends the circular-dependency error for its own service *)
(* next and returns at once, starting no call on its remaining depends_on. *)
(***************************************************************************)
C19_DiscovererReportedThenStops ==
    [][ /\ (pc = "cycle" /\ stack # <<>> /\ call # <<>> /\ call[1] \in visiting)
            => /\ ret' = <<TRUE>>
               /\ errors' = errors
               /\ stack' = stack
               /\ call' = <<>>
        /\ (pc = "cycle" /\ stack # <<>> /\ ret = <<TRUE>>)
            => /\ errors' = Append(errors, ErrCircular(Top.name))
               /\ stack' = Pop
               /\ call' = <<>> ]_vars

\* a has found itself in progress on its first edge and has returned
\* without looking at its second edge, to b
C19_Witness ==
    /\ pc = "cycle"
    /\ stack = <<>>
    /\ ret = <<TRUE>>
    /\ DependsOn(config, "a") = <<"a", "b">>
    /\ "b" \in Keys(config)
    /\ "b" \notin visited \cup visiting
    /\ errors # <<>>
    /\ errors[Len(errors)] = ErrCircular("a")

(***************************************************************************)
(* C20: when every depends_on name is defined, in every state of the       *)
(* cycle check every dependency of a done service is done, and no done     *)
(* service is on a directed cycle or reaches one.                          *)
(***************************************************************************)
C20_DoneClosedAndAcyclic ==
    (pc \in {"cycle", "return", "done"} /\ AllDepsDefined(config)) =>
        \A s \in visited :
            /\ Succ(config, s) \subseteq visited
            /\ ~OnCycle(config, s)
            /\ \A t \in ReachableFrom(config, s) : ~OnCycle(config, t)

C20_Witness ==
    /\ Returned
    /\ AllDepsDefined(config)
    /\ HasCycle(config)
    /\ \E s \in visited : Succ(config, s) # {}
    /\ visited # Keys(config)

(***************************************************************************)
(* C11: a second call of validateConfig on a model, right after the first  *)
(* or after a call on another model, comes to what the first call came to: *)
(* the same errors and warnings in the same order; every call starts with  *)
(* empty accumulators and empty visited, visiting and name sets.           *)
(***************************************************************************)
C11_Idempotent ==
    /\ (first # <<>> /\ Over /\ config = first[1].config) => Outcome = first[1]
    /\ pc = "project" =>
          /\ errors = <<>> /\ warnings = <<>>
          /\ serverNames = {} /\ serviceNames = {}
          /\ visited = {} /\ visiting = {}

\* the second call on a model with a cycle and a repeated server is over
C11_Witness ==
    /\ first # <<>>
    /\ Returned
    /\ config = first[1].config
    /\ config # OtherModel
    /\ HasCycle(config)
    /\ CircularErrors(result.errors) >= 1
    /\ result.warnings # <<>>

(***************************************************************************)
(* C12: no validation entry point throws on a structural violation: on a   *)
(* model with a repeated server name or a dependency on an undefined       *)
(* service, AirstackConfig.validate() completes without throwing.          *)
(***************************************************************************)
C12_ViolationsNotThrown == cls.op = "validate" => ~cls.threw

(***************************************************************************)
(* C14: getService(n) returns the service stored under n when n is a key   *)
(* of the services mapping and otherwise throws the not-found error for    *)
(* service n; getServer(n) returns a server named n when there is one and  *)
(* otherwise throws the not-found error for server n.                      *)
(***************************************************************************)
C14_NamedLookups ==
    /\ cls.op = "getService" =>
          IF cls.service \in Keys(config)
          THEN ~cls.threw /\ cls.value = <<config.services[cls.service]>>
          ELSE cls.threw /\ cls.value = <<>>
               /\ cls.error = <<ClsServiceNotFound(cls.service)>>
    /\ cls.op = "getServer" =>
          IF \E i \in 1..Len(config.servers) : config.servers[i].name = cls.server
          THEN /\ ~cls.threw
               /\ cls.value # <<>>
               /\ cls.value[1] \in Range(config.servers)
               /\ cls.value[1].name = cls.server
          ELSE cls.threw /\ cls.value = <<>>
               /\ cls.error = <<ClsServerNotFound(cls.server)>>

(***************************************************************************)
(* C13: load on a parsed document with k >= 1 schema violations throws one *)
(* error whose message has one line per violation, each the dotted path of *)
(* the violation followed by its reason, and returns no model; it returns  *)
(* a model exactly when the document has no violation.                     *)
(***************************************************************************)
RECURSIVE PlantedViolations(_, _)
PlantedViolations(ids, i) ==
    IF i > Len(ids) THEN 0
    ELSE FaultSites[ids[i]].violations + PlantedViolations(ids, i + 1)

\* the lines of the message that start with the dotted path of the fault
LinesAt(lines, path) ==
    LET start == <<"  ">> \o Join(path, ".") \o <<": ">>
    IN  {i \in 1..Len(lines) :
            /\ Len(lines[i]) > Len(start)
            /\ SubSeq(lines[i], 1, Len(start)) = start}

C13_LoadAggregates ==
    (ld.op = "load" /\ doc.kind = "parsed") =>
        LET k == PlantedViolations(doc.faults, 1) IN
        /\ ld.threw <=> k >= 1
        /\ ld.model # <<>> <=> k = 0
        /\ ~(ld.threw /\ ld.model # <<>>)
        /\ k >= 1 =>
              /\ ld.head = "Configuration validation failed:"
              /\ Len(ld.lines) = k
              /\ \A i \in 1..Len(doc.faults) :
                    Cardinality(LinesAt(ld.lines, FaultSites[doc.faults[i]].path))
                        = FaultSites[doc.faults[i]].violations

\* two values of different tables are wrong: two lines
C13_Witness ==
    /\ ld.op = "load"
    /\ doc.kind = "parsed"
    /\ Len(doc.faults) = 2
    /\ ld.threw
    /\ ld.lines = <<<<"  ", "project", ".", "name", ": ",
                       "String must contain at least 1 character(s)">>,
                     <<"  ", "services", ".", "a", ".", "ports", ".", "0", ": ",
                       "Number must be greater than 0">>>>

(***************************************************************************)
(* C15: run(args) never throws: whatever code the binary exits with, it    *)
(* resolves with the child's stdout and stderr and that code, and with     *)
(* exitCode 1 when the child gave no exit code.                            *)
(***************************************************************************)
C15_RunResolves ==
    sdk.op = "run" =>
        /\ ~sdk.threw
        /\ sdk.value =
             <<[stdout |-> client.binary.stdout,
                stderr |-> client.binary.stderr,
                exitCode |-> IF client.binary.exitCode = <<>> THEN 1
                             ELSE client.binary.exitCode[1]]>>

C15_Witness ==
    /\ sdk.op = "run"
    /\ sdk.argv = <<"status">>
    /\ client.binary.exitCode = <<7>>
    /\ client.binary.stderr = <<"e">>
    /\ ~sdk.threw
    /\ sdk.value[1].exitCode = 7
    /\ sdk.value[1].stderr = <<"e">>

(***************************************************************************)
(* C16: statusJson(detailed) on a client with a configPath p runs the      *)
(* binary with --config p, --json, status, then --detailed iff detailed;   *)
(* without a configPath (undefined or empty) the arguments start at        *)
(* --json; when the binary exits 0 with JSON on stdout, the parsed value   *)
(* is returned.                                                            *)
(***************************************************************************)
C16_StatusJsonArguments ==
    sdk.op \in {"statusJson(true)", "statusJson(false)"} =>
        LET path == client.configPath IN
        /\ sdk.argv =
              (IF path # <<>> /\ path[1] # "" THEN <<"--config", path[1]>> ELSE <<>>)
              \o <<"--json", "status">>
              \o (IF sdk.op = "statusJson(true)" THEN <<"--detailed">> ELSE <<>>)
        /\ (client.binary.exitCode = <<0>> /\ JsonParse(client.binary.stdout) # <<>>)
              => /\ ~sdk.threw
                 /\ sdk.value = JsonParse(client.binary.stdout)
        /\ (client.binary.exitCode = <<0>> /\ client.binary.stdout = <<"[", "1", "]">>)
              => sdk.value = <<JsonArray(<<JsonNumber(1)>>)>>
        /\ (client.binary.exitCode = <<0>> /\ client.binary.stdout = <<" ", "1", "0">>)
              => sdk.value = <<JsonNumber(10)>>

C16_Witness ==
    /\ sdk.op = "statusJson(true)"
    /\ client.configPath = <<"/tmp/airstack.toml">>
    /\ sdk.argv = <<"--config", "/tmp/airstack.toml", "--json", "status", "--detailed">>
    /\ client.binary.exitCode = <<0>>
    /\ ~sdk.threw
    /\ sdk.value = <<JsonArray(<<JsonNumber(1)>>)>>

(***************************************************************************)
(* C21: in every state of the cycle check no service is both in progress   *)
(* and done, and no service moves backwards: a done service stays done, a  *)
(* service in progress stays in progress or becomes done.                  *)
(***************************************************************************)
C21_ThreeStates ==
    /\ [](visiting \cap visited = {})
    /\ [][ /\ visited \subseteq visited'
           /\ visiting \subseteq visiting' \cup visited' ]_vars

\* one service is done while another is in progress
C21_Witness ==
    /\ pc = "cycle"
    /\ visited # {}
    /\ visiting # {}
    /\ stack # <<>>

(***************************************************************************)
(* C22: with every depends_on name defined, the cycle check terminates:    *)
(* each of its steps lowers a measure of the work left that starts at no   *)
(* more than 6 per service plus 3 per depends_on entry, and some step is   *)
(* possible until the check is over; the top-level loop starts one call    *)
(* per service, and depends_on is expanded only for a service that is      *)
(* neither done nor in progress, so at most once per service.              *)
(***************************************************************************)
\* the services whose depends_on has not been expanded
Unexplored == Keys(config) \ (visiting \cup visited)

\* the depends_on entries an active call has still to look at
EdgesLeft(frame) == Len(DependsOn(config, frame.name)) - (frame.next - 1)

\* the number of depends_on entries of the model
DependsOnEntries ==
    Sum([i \in 1..Len(config.order) |-> Len(DependsOn(config, config.order[i]))])

\* the work left: roots to start, services to expand, edges to look at,
\* a call to start and a return value to consume
Work ==
    3 * (Len(config.order) - (ri - 1))
    + Sum([i \in 1..Len(config.order) |->
             IF config.order[i] \in Unexplored
             THEN 3 * Len(DependsOn(config, config.order[i])) + 3 ELSE 0])
    + Sum([i \in 1..Len(stack) |-> 3 * EdgesLeft(stack[i]) + 2])
    + (IF call # <<>> THEN 2 ELSE 0)
    + (IF ret # <<>> THEN 1 ELSE 0)

C22_CycleCheckTerminates ==
    /\ []((pc = "cycle" /\ AllDepsDefined(config)) =>
            /\ Work >= 0
            /\ Work <= 6 * Len(config.order) + 3 * DependsOnEntries
            /\ ENABLED Next
            /\ \A i, j \in 1..Len(stack) : stack[i].name = stack[j].name => i = j)
    /\ []((pc \in {"return", "done"} /\ config.has_services
              /\ AllDepsDefined(config)) =>
            /\ ri = Len(config.order) + 1
            /\ stack = <<>> /\ call = <<>>)
    /\ [][(pc = "cycle" /\ pc' = "cycle" /\ AllDepsDefined(config)) =>
            /\ Work' < Work
            /\ ri' # ri => (ri' = ri + 1 /\ call' = <<config.order[ri]>>)
            /\ Len(stack') > Len(stack) =>
                 /\ call # <<>>
                 /\ call[1] \in Unexplored
                 /\ call[1] \notin Unexplored']_vars

\* the check is over on a graph with a cycle where a service was reached
\* again after it was done
C22_Witness ==
    /\ Returned
    /\ AllDepsDefined(config)
    /\ HasCycle(config)
    /\ Cardinality(Keys(config)) >= 3
    /\ \E s \in visited :
          Cardinality({t \in Keys(config) : s \in Succ(config, t)}) >= 2

(***************************************************************************)
(* Order of the findings                                                   *)
(***************************************************************************)
\* the block of validateConfig an error comes from: 1 project, 2 servers,
\* 3 services, 4 circular dependencies
Block(e) ==
    IF e.kind = "ProjectNameEmpty" THEN 1
    ELSE IF e.kind \in {"DuplicateServerName", "ServerNameEmpty"} THEN 2
    ELSE IF e.kind = "CircularDependency" THEN 4
    ELSE 3

\* the position of a service in the declaration order
Position(cfg, serviceName) ==
    CHOOSE i \in 1..Len(cfg.order) : cfg.order[i] = serviceName

\* e is an error of the k-th server
ErrorOfServer(cfg, e, k) ==
    \/ /\ e.kind = "ServerNameEmpty"
       /\ Trim(cfg.servers[k].name) = <<>>
    \/ /\ e.kind = "DuplicateServerName"
       /\ cfg.servers[k].name = e.server
       /\ \E j \in 1..(k - 1) : cfg.servers[j].name = e.server

\* the server errors errs can be given to servers k, k+1, ... without ever
\* going back: each error goes to the first server from the previous error's
\* server on that it is an error of
RECURSIVE InServerOrder(_, _, _)
InServerOrder(cfg, errs, k) ==
    \/ errs = <<>>
    \/ LET owners == {j \in k..Len(cfg.servers) : ErrorOfServer(cfg, Head(errs), j)}
       IN  /\ owners # {}
           /\ InServerOrder(cfg, Tail(errs),
                            CHOOSE j \in owners : \A o \in owners : j <= o)

IsServerError(e) == Block(e) = 2

ServiceLevelWarning(w) == w.kind \in {"NoPorts", "PrivilegedPort"}

\* C24: in the warnings list, every no-exposed-ports or privileged-port
\* warning of every service comes before every volume-format warning of any
\* service
C24_VolumeWarningsAfterServiceWarnings ==
    \A i, j \in 1..Len(warnings) :
        (ServiceLevelWarning(warnings[i]) /\ warnings[j].kind = "VolumeFormat")
        => i < j

\* C27: within one call each service is named in at most one
\* circular-dependency error, so there are never more circular-dependency
\* errors than services
C27_OneCircularErrorPerService ==
    /\ \A i, j \in 1..Len(errors) :
            (/\ errors[i].kind = "CircularDependency"
             /\ errors[j].kind = "CircularDependency"
             /\ errors[i].service = errors[j].service) => i = j
    /\ \A i \in 1..Len(errors) :
            errors[i].kind = "CircularDependency" => errors[i].service \in Keys(config)
    /\ CircularErrors(errors) <= Cardinality(Keys(config))

\* a returned call with circular-dependency errors for several services, one
\* of which is depended on by two services and so is reached twice
C27_Witness ==
    /\ Returned
    /\ CircularErrors(errors) >= 2
    /\ \E i \in 1..Len(errors) :
        /\ errors[i].kind = "CircularDependency"
        /\ Cardinality({t \in Keys(config) : errors[i].service \in Succ(config, t)}) >= 2

(***************************************************************************)
(* C26: runJson hands run the caller's arguments with --json in front, and *)
(* looks at the exit code before it parses: it returns a value only when   *)
(* the binary exits 0 and stdout parses as JSON, and the value is the      *)
(* parse of the whole of stdout; on any other exit code it throws the      *)
(* command-failed error, even when stdout is valid JSON; on exit 0 with    *)
(* stdout that does not parse it throws the parse error.                   *)
(***************************************************************************)
C26_RunJsonChecksExitFirst ==
    sdk.op = "runJson" =>
        LET child == client.binary
            path == client.configPath
            global == IF path # <<>> /\ path[1] # "" THEN <<"--config", path[1]>> ELSE <<>>
        IN
        /\ \E args \in CommandArgs : sdk.argv = global \o <<"--json">> \o args
        /\ sdk.threw <=> sdk.value = <<>>
        /\ ~sdk.threw <=> (child.exitCode = <<0>> /\ JsonParse(child.stdout) # <<>>)
        /\ ~sdk.threw => sdk.value = JsonParse(child.stdout)
        /\ child.exitCode # <<0>> => sdk.error = "Airstack command failed"
        /\ (child.exitCode = <<0>> /\ JsonParse(child.stdout) = <<>>)
              => sdk.error = "Failed to parse JSON output"
        /\ child.stdout \in {<<>>, <<"1", " ", "1">>, <<"[", "1", ",">>, <<"[", "1">>,
                             <<"1", "]">>, <<"[", ",", "]">>, <<" ">>}
              => sdk.threw

\* runJson on a binary that prints valid JSON and exits with code 7
C26_Witness ==
    /\ sdk.op = "runJson"
    /\ sdk.argv = <<"--config", "/tmp/airstack.toml", "--json", "up", "--detailed">>
    /\ client.binary.exitCode = <<7>>
    /\ client.binary.stdout = <<"[", "1", "]">>
    /\ sdk.threw
    /\ sdk.error = "Airstack command failed"

(***************************************************************************)
(* validateConfig and AirstackConfig.validate on the same model            *)
(***************************************************************************)
\* validate() of the instance that holds the model validateConfig was
\* called on, once that call is over
ValidateAfter ==
    /\ Over
    /\ Validate

NextValidators ==
    \/ Next
    \/ ValidateAfter

SpecValidators == Init /\ [][NextValidators]_vars

RepeatedServerName(cfg) ==
    \E i, j \in 1..Len(Servers(cfg)) :
        i # j /\ Servers(cfg)[i].name = Servers(cfg)[j].name

\* C28: on every model for which validateConfig returns valid = true,
\* validate() completes without throwing; and validate() throws only on a
\* model with a repeated server name or with a depends_on name that is not
\* a defined service
C28_ValidatorsAgree ==
    cls.op = "validate" =>
        /\ (Returned /\ result.valid) => ~cls.threw
        /\ cls.threw => (RepeatedServerName(config) \/ ~AllDepsDefined(config))

\* validate() has completed on a model that validateConfig found valid and
\* that has a dependency named like a property every object inherits
C28_Witness ==
    /\ cls.op = "validate"
    /\ ~cls.threw
    /\ Returned
    /\ result.valid
    /\ \E s \in Keys(config) : Range(DependsOn(config, s)) \cap ProtoNames # {}

(***************************************************************************)
(* C25: resolveAirstackBinaryPath follows a fixed precedence on every      *)
(* machine.  With AIRSTACK_BINARY set (to a non-empty value): the value is *)
(* returned when it exists, and the call throws when it does not, whatever *)
(* else exists.  Otherwise the first existing path among bin/,             *)
(* bin/<platform>-<arch>/, target/release/, target/debug/ is returned;     *)
(* when none exists and 'airstack --version' succeeds on PATH, 'airstack'  *)
(* is returned; otherwise the call throws.                                 *)
(***************************************************************************)
C25_ResolutionPrecedence ==
    bin.op = "resolve" =>
        LET name == IF host.platform = "win32" THEN "airstack.exe" ELSE "airstack"
            dir == IF host.platform = "win32" THEN "win32-x64" ELSE "linux-x64"
            fallbacks == << <<"bin", name>>, <<"bin", dir, name>>,
                            <<"target", "release", name>>, <<"target", "debug", name>> >>
            isSet == host.AIRSTACK_BINARY \notin {<<>>, << <<>> >>}
            present == {i \in 1..4 : fallbacks[i] \in host.exists}
        IN
        /\ (isSet /\ host.AIRSTACK_BINARY[1] \in host.exists)
              => (~bin.threw /\ bin.value = host.AIRSTACK_BINARY)
        /\ (isSet /\ host.AIRSTACK_BINARY[1] \notin host.exists)
              => (bin.threw /\ bin.value = <<>>
                  /\ bin.error = "AIRSTACK_BINARY is set but does not exist")
        /\ \A i \in present :
              (~isSet /\ \A j \in present : i <= j)
              => (~bin.threw /\ bin.value = <<fallbacks[i]>>)
        /\ (~isSet /\ present = {} /\ host.inPath = <<0>>)
              => (~bin.threw /\ bin.value = << <<"airstack">> >>)
        /\ (~isSet /\ present = {} /\ host.inPath # <<0>>)
              => (bin.threw /\ bin.value = <<>>
                  /\ bin.error = "Airstack binary not found")

\* AIRSTACK_BINARY is unset, bin/ has no binary, and both target/release/
\* and target/debug/ have one: the one of target/release/ is returned
C25_Witness ==
    /\ bin.op = "resolve"
    /\ host.AIRSTACK_BINARY = <<>>
    /\ host.platform = "linux"
    /\ host.exists = {<<"target", "release", "airstack">>, <<"target", "debug", "airstack">>}
    /\ host.inPath = <<0>>
    /\ bin.value = << <<"target", "release", "airstack">> >>

(***************************************************************************)
(* C29: the CLI wrapper spawns the child only once a binary path was       *)
(* found and its --version probe succeeded; when no path is found or the   *)
(* probe fails it exits with code 1 and nothing is spawned.  Once the      *)
(* child is spawned, the wrapper's own exit is the answer to the child's   *)
(* event: the child's exit code when the child exited normally, 1 when the *)
(* child was terminated by a signal or could not be started.               *)
(***************************************************************************)
C29_ChildOutcomePropagated ==
    LET resolvable == \E p \in host.exists :
                         \E i \in 1..4 : p = PossiblePaths(host.platform)[i]
        spawned == childProc.state # "none"
    IN
    /\ spawned => (resolvable /\ host.version)
    /\ cli.pc \in {"spawn", "sigint", "sigterm", "loop"} => (resolvable /\ host.version)
    /\ (~resolvable /\ cli.pc \notin {"resolve", "killed"})
          => (cli.pc = "exited" /\ cli.exitCode = <<1>> /\ ~spawned)
    /\ (resolvable /\ ~host.version /\ cli.pc \notin {"resolve", "probe", "killed"})
          => (cli.pc = "exited" /\ cli.exitCode = <<1>> /\ ~spawned)
    /\ (cli.pc = "exited" /\ spawned) =>
          /\ childProc.state \in {"exited", "failed"}
          /\ childProc.state = "failed" => cli.exitCode = <<1>>
          /\ (childProc.state = "exited" /\ childProc.signal # <<>>)
                => cli.exitCode = <<1>>
          /\ (childProc.state = "exited" /\ childProc.signal = <<>>)
                => cli.exitCode = childProc.code
    /\ (cli.pc = "loop" /\ childProc.event # <<>>) => ENABLED HandleChildEvent

\* the wrapper has exited with code 1 after the child, to which it had
\* forwarded a SIGTERM, was terminated by that signal
C29_Witness ==
    /\ cli.pc = "exited"
    /\ cli.cause = "exit"
    /\ cli.exitCode = <<1>>
    /\ childProc.state = "exited"
    /\ childProc.signal = <<"SIGTERM">>
    /\ cli.forwarded = <<"SIGTERM">>

(***************************************************************************)
(* C30: once the child is spawned, a SIGINT or SIGTERM delivered to the    *)
(* wrapper does not terminate the wrapper and is passed to the child as    *)
(* the same signal: the signals delivered to a wrapper with a child are    *)
(* those it has forwarded followed by those it is about to forward, and    *)
(* the wrapper is never gone, by exit or by signal, while the child runs.  *)
(***************************************************************************)
C30_SignalsForwardedNotFatal ==
    childProc.state \in {"running", "exited"} =>
        /\ cli.pc # "killed"
        /\ cli.signals = cli.forwarded \o cli.pending
        /\ childProc.state = "running" => cli.pc # "exited"

=============================================================================
